---- MODULE Spec2Model ----
(***************************************************************************)
(* A state-machine model of the PN5180 driver (src/PN5180.cpp): the bus    *)
(* transport transceiveCommand with its BUSY-line handshake, and the       *)
(* command/register layer built on it.                                     *)
(*                                                                         *)
(* The driver is single-threaded.  One top-level call is in progress at a  *)
(* time (pc, call); it invokes transceiveCommand (tpc), whose steps are    *)
(* interleaved with the environment: the chip drives the BUSY line and     *)
(* supplies the response bytes, and the millisecond clock advances.        *)
(***************************************************************************)
EXTENDS Integers, Sequences, FiniteSets, TLC

(***************************************************************************)
(* Bounds of the model.  Time is counted in clock ticks; the two timeouts  *)
(* of the driver are scaled down to a few ticks.                           *)
(***************************************************************************)
CommandTimeoutTicks == 1
SetRfTimeoutTicks == 1

(***************************************************************************)
(* Host interface command codes.                                           *)
(***************************************************************************)
PN5180_WRITE_REGISTER == 0
PN5180_WRITE_REGISTER_OR_MASK == 1
PN5180_WRITE_REGISTER_AND_MASK == 2
PN5180_READ_REGISTER == 4
PN5180_READ_EEPROM == 7
PN5180_SEND_DATA == 9
PN5180_READ_DATA == 10
PN5180_RF_ON == 22
PN5180_RF_OFF == 23

(***************************************************************************)
(* Register addresses, interrupt flags and the transceiver state of the    *)
(* chip's register map.                                                    *)
(***************************************************************************)
SYSTEM_CONFIG == 0
IRQ_STATUS == 2
IRQ_CLEAR == 3
RF_STATUS == 29
PN5180_TS_Idle == 0
PN5180_TS_WaitTransmit == 1

(***************************************************************************)
(* Digital levels of the three control lines.                              *)
(***************************************************************************)
LOW == "LOW"
HIGH == "HIGH"

(***************************************************************************)
(* 32-bit unsigned values.  TLC's integers are 32-bit signed, so a         *)
(* uint32_t is kept as its two 16-bit halves.                              *)
(***************************************************************************)
U32(hi, lo) == [hi |-> hi, lo |-> lo]

(* bits 8k .. 8k+7 of value v, k in 0..3 *)
ByteOf(v, k) ==
  CASE k = 0 -> v.lo % 256
    [] k = 1 -> v.lo \div 256
    [] k = 2 -> v.hi % 256
    [] k = 3 -> v.hi \div 256

RECURSIVE BitAnd16(_, _, _)
BitAnd16(a, b, n) ==
  IF n = 0 THEN 0
  ELSE (IF a % 2 = 1 /\ b % 2 = 1 THEN 1 ELSE 0)
       + 2 * BitAnd16(a \div 2, b \div 2, n - 1)

And32(a, b) == U32(BitAnd16(a.hi, b.hi, 16), BitAnd16(a.lo, b.lo, 16))

Zero32 == U32(0, 0)

(* a & ~m *)
AndNot32(a, m) ==
  U32(a.hi - BitAnd16(a.hi, m.hi, 16), a.lo - BitAnd16(a.lo, m.lo, 16))

(* interrupt flags of IRQ_STATUS *)
IDLE_IRQ_STAT == U32(0, 4)
TX_RFOFF_IRQ_STAT == U32(0, 256)
TX_RFON_IRQ_STAT == U32(0, 512)

(***************************************************************************)
(* Host memory.  The driver reads and writes a uint32_t through a          *)
(* uint8_t* cast, so the bytes it sees are the host's memory layout:       *)
(* p[0] is the least significant byte on a little-endian host and the      *)
(* most significant byte on a big-endian host.  Sequences are 1-based:     *)
(* p[i] of the source is HostBytes(v, be)[i + 1].                          *)
(***************************************************************************)
HostBytes(v, be) == [i \in 1..4 |-> ByteOf(v, IF be THEN 4 - i ELSE i - 1)]

FromHostBytes(b, be) ==
  IF be THEN U32(b[1] * 256 + b[2], b[3] * 256 + b[4])
  ELSE U32(b[3] + b[4] * 256, b[1] + b[2] * 256)

(* the first Len(data) bytes of buf overwritten by data *)
WriteBuf(buf, data) ==
  [i \in 1..Len(buf) |-> IF i <= Len(data) THEN data[i] ELSE buf[i]]

Fill(n, b) == [i \in 1..n |-> b]

VARIABLES
  bigEndian,  \* byte order of the host the driver was built for
  nss,        \* level of the select line PN5180_NSS (LOW = asserted)
  busy,       \* level of the BUSY line, driven by the chip
  rstLine,    \* level of the reset line PN5180_RST
  waited,     \* millis() - startedWaiting of the current busy-line wait
  opWaited,   \* millis() - startedWaiting of the caller's polling loop
  tpc,        \* position inside transceiveCommand ("idle" when not in it)
  tframe,     \* sendBuffer[0 .. sendBufferLen-1]
  tdst,       \* recvBuffer: the name of a buffer of mem, or "null"
  trlen,      \* recvBufferLen
  tres,       \* return value of transceiveCommand
  tlog,       \* bus events of the current transceiveCommand call
  rx,         \* the bytes received by the last receive transfer
  mem,        \* the driver's buffers
  pc,         \* position inside the top-level call; "done" when it has
              \* returned, "idle" before the next call
  call,       \* the top-level call in progress and its arguments
  ret,        \* the value returned by the last top-level call
  cmds,       \* frames put on the bus during the top-level call
  loc,        \* local variables of the top-level call
  rstLog,     \* reset pulses of the top-level call
  chip,       \* the chip's pending interrupt flags, as far as they are known
  ta,         \* the call in progress of the ISO 14443 layer
  vi          \* the call in progress of the ISO 15693 layer

vars == <<bigEndian, nss, busy, rstLine, waited, opWaited, tpc, tframe, tdst,
          trlen, tres, tlog, rx, mem, pc, call, ret, cmds, loc, rstLog, chip, ta,
          vi>>

tvars == <<tpc, tframe, tdst, trlen, tres, tlog, waited>>

(***************************************************************************)
(* The chip's interrupt status.  In general the chip raises flags at any   *)
(* time, and a read of IRQ_STATUS may return any value (quiet = FALSE).    *)
(* On a quiet chip no new event happens: irq holds the pending flags, a    *)
(* read of IRQ_STATUS returns them, and a write of a mask to IRQ_CLEAR     *)
(* clears the flags of the mask.  atEntry is irq at the start of the       *)
(* top-level call; prev describes the call before it: its name and mask,   *)
(* whether it put a frame on the bus, and irq before and after it.         *)
(***************************************************************************)
NoPrev == [name |-> "none", mask |-> Zero32, sent |-> FALSE, before |-> Zero32,
           irq |-> Zero32]

BusyChip == [quiet |-> FALSE, irq |-> Zero32, atEntry |-> Zero32, prev |-> NoPrev]

QuietIrqs == {Zero32, U32(0, 516), U32(1, 6)}

QuietChips == { [BusyChip EXCEPT !.quiet = TRUE, !.irq = v, !.atEntry = v] : v \in QuietIrqs }

(* the chip after it has been sent a frame *)
ChipReceives(frame) ==
  IF /\ chip.quiet
     /\ Len(frame) = 6
     /\ frame[1] = PN5180_WRITE_REGISTER
     /\ frame[2] = IRQ_CLEAR
  THEN [chip EXCEPT !.irq = AndNot32(@, FromHostBytes(SubSeq(frame, 3, 6), FALSE))]
  ELSE chip

(***************************************************************************)
(* The chip's side of a receive transfer: the bytes it shifts out for the  *)
(* command frame it was sent.  Register reads answer with a 32-bit value,  *)
(* least significant byte first; other reads answer with one of a few      *)
(* byte patterns.                                                          *)
(***************************************************************************)
IrqReplies == { <<0, 0, 0, 0>>, <<4, 0, 0, 0>>, <<0, 1, 0, 0>>,
                <<0, 2, 0, 0>>, <<4, 2, 0, 0>> }

RfStatusReplies == { <<0, 0, 0, 0>>, <<5, 0, 0, 1>>, <<1, 0, 0, 2>>,
                     <<0, 0, 0, 9>> }

DataSeeds == {16, 160}

DataReply(seed, n) == [i \in 1..n |-> (seed + i) % 256]

ChipReplies(frame, n) ==
  IF frame[1] = PN5180_READ_REGISTER /\ n = 4
  THEN IF frame[2] = RF_STATUS THEN RfStatusReplies
       ELSE IF chip.quiet /\ frame[2] = IRQ_STATUS THEN { HostBytes(chip.irq, FALSE) }
       ELSE IrqReplies
  ELSE { DataReply(seed, n) : seed \in DataSeeds }

(***************************************************************************)
(* transceiveCommand, src/PN5180.cpp 804-909.                              *)
(***************************************************************************)
WaitStates == {"send0", "send3", "send5", "recv3", "recv5"}

Event(e, level) == [e |-> e, nss |-> level]

(* entry: the call with its arguments; startedWaiting = millis() *)
transceiveCommand(sendBuffer, recvBuffer, recvBufferLen) ==
  /\ tpc' = "send0"
  /\ tframe' = sendBuffer
  /\ tdst' = recvBuffer
  /\ trlen' = recvBufferLen
  /\ tres' = FALSE
  /\ tlog' = << >>
  /\ waited' = 0

(* mutant: the abort leaves NSS as it is *)
WaitTimeout_KeepsNSS ==
  /\ UNCHANGED nss
  /\ tres' = FALSE
  /\ tpc' = "ret"
  /\ waited' = 0
  /\ tlog' = Append(tlog, Event("timeout", nss))

(* a busy-line wait that has run out: endTransaction, NSS high, return false *)
WaitTimeout ==
  /\ nss' = HIGH
  /\ tres' = FALSE
  /\ tpc' = "ret"
  /\ waited' = 0
  /\ tlog' = Append(tlog, Event("timeout", HIGH))

(* mutant: the wait has no timeout *)
WaitBusy_NoTimeout(at, level, next) ==
  /\ tpc = at
  /\ busy = level
  /\ tpc' = next
  /\ waited' = 0
  /\ tlog' = Append(tlog, Event(IF level = LOW THEN "busyLow" ELSE "busyHigh", nss))
  /\ UNCHANGED <<nss, tres>>
  /\ UNCHANGED <<chip, tframe, tdst, trlen, rx, mem, cmds>>

(* while (level != digitalRead(BUSY)) { if (millis() - startedWaiting > commandTimeout) ... } *)
WaitBusy(at, level, next) ==
  /\ tpc = at
  /\ \/ /\ busy = level
        /\ tpc' = next
        /\ waited' = 0
        /\ tlog' = Append(tlog, Event(IF level = LOW THEN "busyLow" ELSE "busyHigh", nss))
        /\ UNCHANGED <<nss, tres>>
     \/ /\ busy # level
        /\ waited > CommandTimeoutTicks
        /\ WaitTimeout
  /\ UNCHANGED <<chip, tframe, tdst, trlen, rx, mem, cmds>>

SetNSS(at, level, next) ==
  /\ tpc = at
  /\ nss' = level
  /\ tpc' = next
  /\ tlog' = Append(tlog, Event(IF level = LOW THEN "nssLow" ELSE "nssHigh", level))
  /\ waited' = 0
  /\ UNCHANGED <<chip, tframe, tdst, trlen, tres, rx, mem, cmds>>

(* consecutive repetitions of one frame (a polling loop) are kept once *)
LogFrame(log, frame) ==
  IF log # << >> /\ log[Len(log)] = frame THEN log ELSE Append(log, frame)

send0 == WaitBusy("send0", LOW, "send1")

send1 == SetNSS("send1", LOW, "send2")

send2 ==
  /\ tpc = "send2"
  /\ tpc' = "send3"
  /\ waited' = 0
  /\ tlog' = Append(tlog, Event("send", nss))
  /\ cmds' = LogFrame(cmds, tframe)
  /\ chip' = ChipReceives(tframe)
  /\ UNCHANGED <<nss, tframe, tdst, trlen, tres, rx, mem>>

(* mutant: NSS is de-asserted right after the transfer, before the wait *)
send3_AfterDeassert ==
  /\ tpc = "send3"
  /\ nss' = HIGH
  /\ tpc' = "send5"
  /\ waited' = 0
  /\ tlog' = Append(tlog, Event("nssHigh", HIGH))
  /\ UNCHANGED <<chip, tframe, tdst, trlen, tres, rx, mem, cmds>>

send3 == WaitBusy("send3", HIGH, "send4")

send4 == SetNSS("send4", HIGH, "send5")

send5 == WaitBusy("send5", LOW, "writeOnly")

(* mutant: only a missing receive buffer ends the call after the send phase *)
writeOnly_NullOnly ==
  /\ tpc = "writeOnly"
  /\ IF tdst = "null"
     THEN /\ nss' = HIGH
          /\ tres' = TRUE
          /\ tpc' = "ret"
     ELSE /\ tpc' = "recv1"
          /\ UNCHANGED <<nss, tres>>
  /\ UNCHANGED <<chip, tframe, tdst, trlen, tlog, waited, rx, mem, cmds>>

(* if ((0 == recvBuffer) || (0 == recvBufferLen)) { ...; return true; } *)
writeOnly ==
  /\ tpc = "writeOnly"
  /\ IF tdst = "null" \/ trlen = 0
     THEN /\ nss' = HIGH
          /\ tres' = TRUE
          /\ tpc' = "ret"
     ELSE /\ tpc' = "recv1"
          /\ UNCHANGED <<nss, tres>>
  /\ UNCHANGED <<chip, tframe, tdst, trlen, tlog, waited, rx, mem, cmds>>

recv1 == SetNSS("recv1", LOW, "recv2")

(* memset(recvBuffer, 0xFF, recvBufferLen); SPI.transfer(recvBuffer, recvBufferLen) *)
recv2 ==
  /\ tpc = "recv2"
  /\ \E data \in ChipReplies(tframe, trlen) :
        /\ rx' = data
        /\ mem' = [mem EXCEPT ![tdst] = WriteBuf(WriteBuf(@, Fill(trlen, 255)), data)]
  /\ tpc' = "recv3"
  /\ waited' = 0
  /\ tlog' = Append(tlog, Event("recv", nss))
  /\ UNCHANGED <<chip, nss, tframe, tdst, trlen, tres, cmds>>

recv3 == WaitBusy("recv3", HIGH, "recv4")

recv4 == SetNSS("recv4", HIGH, "recv5")

recv5 ==
  /\ tpc = "recv5"
  /\ \/ /\ busy = LOW
        /\ tres' = TRUE
        /\ tpc' = "ret"
        /\ waited' = 0
        /\ tlog' = Append(tlog, Event("busyLow", nss))
        /\ UNCHANGED nss
     \/ /\ busy # LOW
        /\ waited > CommandTimeoutTicks
        /\ WaitTimeout
  /\ UNCHANGED <<chip, tframe, tdst, trlen, rx, mem, cmds>>

Transport ==
  /\ \/ send0 \/ send1 \/ send2 \/ send3 \/ send4 \/ send5 \/ writeOnly
     \/ recv1 \/ recv2 \/ recv3 \/ recv4 \/ recv5
  /\ UNCHANGED <<bigEndian, vi, ta, busy, rstLine, opWaited, pc, call, ret, loc, rstLog>>

(***************************************************************************)
(* The command/register layer.  A top-level call starts in a state with    *)
(* pc = "idle"; it runs straight through to its first transceiveCommand    *)
(* (or to its return, when it rejects its arguments), and continues each   *)
(* time transceiveCommand has returned (tpc = "ret").                      *)
(***************************************************************************)
NoCall == [name |-> "none", reg |-> 0, value |-> Zero32, addr |-> 0, len |-> 0,
           validBits |-> 0]

NoRet == [ok |-> FALSE, buf |-> "null"]

NoLoc == [readBuffer |-> "null", irqStatus |-> Zero32, transceiveState |-> -1,
          flagSeen |-> FALSE, timedOut |-> FALSE, failed |-> FALSE]

(* the locals once the caller has looked at transceiveCommand's result;
   failed remembers that some exchange of the call returned false *)
Seen(l) == [l EXCEPT !.failed = @ \/ ~tres]

CallerBufSize == 255

(* the state a call starts from: its logs and locals are empty *)
Enter(c) ==
  /\ pc = "idle"
  /\ call' = c
  /\ ret' = NoRet
  /\ rstLog' = << >>
  /\ opWaited' = 0
  /\ rx' = << >>
  /\ chip' = [chip EXCEPT !.atEntry = chip.irq]
  /\ UNCHANGED <<bigEndian, vi, ta, busy>>

(* a return before any bus activity *)
NoBusActivity ==
  /\ tpc' = "idle"
  /\ tframe' = << >>
  /\ tdst' = "null"
  /\ trlen' = 0
  /\ tres' = FALSE
  /\ tlog' = << >>
  /\ waited' = 0
  /\ cmds' = << >>
  /\ UNCHANGED nss

(* the first transceiveCommand of a call *)
FirstCommand(sendBuffer, recvBuffer, recvBufferLen) ==
  /\ transceiveCommand(sendBuffer, recvBuffer, recvBufferLen)
  /\ cmds' = << >>
  /\ UNCHANGED nss

(* a later transceiveCommand of a call, issued when the previous one returned *)
NextCommand(sendBuffer, recvBuffer, recvBufferLen) ==
  /\ transceiveCommand(sendBuffer, recvBuffer, recvBufferLen)
  /\ UNCHANGED <<nss, cmds>>

(* the top-level call returns r after its last transceiveCommand *)
Return(r) ==
  /\ pc' = "done"
  /\ ret' = r
  /\ tpc' = "idle"
  /\ UNCHANGED <<tframe, tdst, trlen, tres, tlog, waited, nss, cmds>>

FreshMem == [mem EXCEPT !.caller = Fill(CallerBufSize, 238), !.val = Fill(4, 0)]

Ok(b) == [ok |-> b, buf |-> "null"]

(* the caller has taken the result and goes on to its next call: the call's
   history is dropped, what the driver keeps (the lines, its buffers) stays *)
callerContinues ==
  /\ pc = "done"
  /\ pc' = "idle"
  /\ call' = NoCall
  /\ ret' = NoRet
  /\ loc' = NoLoc
  /\ rstLog' = << >>
  /\ opWaited' = 0
  /\ rx' = << >>
  /\ mem' = FreshMem
  /\ NoBusActivity
  /\ chip' = [chip EXCEPT !.atEntry = chip.irq,
                          !.prev = IF chip.quiet
                                   THEN [name |-> call.name, mask |-> call.value,
                                         sent |-> cmds # << >>,
                                         before |-> chip.atEntry, irq |-> chip.irq]
                                   ELSE NoPrev]
  /\ UNCHANGED <<bigEndian, vi, ta, busy, rstLine>>

(***************************************************************************)
(* writeRegister, writeRegisterWithOrMask, writeRegisterWithAndMask:       *)
(* the 6-byte frame built from p, the byte view of value.                  *)
(***************************************************************************)
writeRegisterFrame(reg, value) ==
  LET p == HostBytes(value, bigEndian)
  IN  <<PN5180_WRITE_REGISTER, reg, p[1], p[2], p[3], p[4]>>

writeRegisterWithOrMaskFrame(reg, mask) ==
  LET p == HostBytes(mask, bigEndian)
  IN  <<PN5180_WRITE_REGISTER_OR_MASK, reg, p[1], p[2], p[3], p[4]>>

writeRegisterWithAndMaskFrame(reg, mask) ==
  LET p == HostBytes(mask, bigEndian)
  IN  <<PN5180_WRITE_REGISTER_AND_MASK, reg, p[1], p[2], p[3], p[4]>>

readRegisterFrame(reg) == <<PN5180_READ_REGISTER, reg>>

(* arguments the model calls the register writes with *)
RegArgs == {SYSTEM_CONFIG, IRQ_CLEAR}

ValueArgs == {U32(0, 1), U32(258, 772), U32(65535, 65528)}

WriteKinds == {"writeRegister", "writeRegisterWithOrMask", "writeRegisterWithAndMask"}

WriteFrameOf(kind, reg, value) ==
  CASE kind = "writeRegister" -> writeRegisterFrame(reg, value)
    [] kind = "writeRegisterWithOrMask" -> writeRegisterWithOrMaskFrame(reg, value)
    [] kind = "writeRegisterWithAndMask" -> writeRegisterWithAndMaskFrame(reg, value)

writeRegister_call ==
  \E kind \in WriteKinds, reg \in RegArgs, value \in ValueArgs :
    /\ Enter([NoCall EXCEPT !.name = kind, !.reg = reg, !.value = value])
    /\ pc' = "writeRegister"
    /\ loc' = NoLoc
    /\ mem' = FreshMem
    /\ FirstCommand(WriteFrameOf(kind, reg, value), "null", 0)
    /\ UNCHANGED rstLine

writeRegister_ret ==
  /\ pc = "writeRegister"
  /\ tpc = "ret"
  /\ loc' = Seen(loc)
  /\ Return(Ok(tres))
  /\ UNCHANGED <<bigEndian, vi, ta, chip, busy, rstLine, opWaited, rx, mem, call, rstLog>>

(***************************************************************************)
(* readEEprom, src/PN5180.cpp 307-344.                                     *)
(***************************************************************************)
AddrArgs == {0, 1, 253, 254, 255}

EELenArgs == {0, 1, 2, 254, 255}

(* mutant: only the start address is checked *)
readEEpromRejects_AddrOnly(addr, len) == addr > 254

readEEpromRejects(addr, len) == (addr > 254) \/ ((addr + len) > 254)

readEEpromFrame(addr, len) == <<PN5180_READ_EEPROM, addr, len % 256>>

readEEprom_call ==
  \E addr \in AddrArgs, len \in EELenArgs :
    /\ Enter([NoCall EXCEPT !.name = "readEEprom", !.addr = addr, !.len = len])
    /\ loc' = NoLoc
    /\ mem' = FreshMem
    /\ UNCHANGED rstLine
    /\ IF readEEpromRejects(addr, len)
       THEN /\ pc' = "done"
            /\ NoBusActivity
       ELSE /\ pc' = "readEEprom"
            /\ FirstCommand(readEEpromFrame(addr, len), "caller", len)

readEEprom_ret ==
  /\ pc = "readEEprom"
  /\ tpc = "ret"
  /\ loc' = Seen(loc)
  /\ Return(Ok(tres))
  /\ UNCHANGED <<bigEndian, vi, ta, chip, busy, rstLine, opWaited, rx, mem, call, rstLog>>

(***************************************************************************)
(* sendData and cmd_SendData, src/PN5180.cpp 361-428 and 1068-1087;        *)
(* getTransceiveState, 995-1033.                                           *)
(***************************************************************************)
SendLenArgs == {0, 1, 260, 261}

ValidBitsArgs == {0, 7}

SendSeed == 32

cmd_SendDataFrame(data, len, validBits) ==
  <<PN5180_SEND_DATA, validBits>> \o [i \in 1..len |-> data[i]]

(* mutant: the state field is taken from the low byte *)
TransceiveStateOf_LowByte(rfStatus) == ByteOf(rfStatus, 0) % 8

(* uint8_t state = ((rfStatus >> 24) & 0x07) *)
TransceiveStateOf(rfStatus) == ByteOf(rfStatus, 3) % 8

(* the state getTransceiveState returns once readRegister(RF_STATUS) is back *)
getTransceiveState ==
  IF ~tres THEN PN5180_TS_Idle
  ELSE TransceiveStateOf(FromHostBytes(mem.val, bigEndian))

(* mutant: the limit is off by one *)
sendDataRejects_OffByOne(len) == len > 261

sendDataRejects(len) == len > 260

sendData_call ==
  \E len \in SendLenArgs, validBits \in ValidBitsArgs :
    /\ Enter([NoCall EXCEPT !.name = "sendData", !.len = len, !.validBits = validBits])
    /\ loc' = NoLoc
    /\ mem' = FreshMem
    /\ UNCHANGED rstLine
    /\ IF sendDataRejects(len)
       THEN /\ pc' = "done"
            /\ NoBusActivity
       ELSE /\ pc' = "sendData_and"
            /\ FirstCommand(writeRegisterWithAndMaskFrame(SYSTEM_CONFIG, U32(65535, 65528)),
                            "null", 0)

sendData_and ==
  /\ pc = "sendData_and"
  /\ tpc = "ret"
  /\ loc' = Seen(loc)
  /\ IF ~tres
     THEN Return(Ok(FALSE))
     ELSE /\ pc' = "sendData_or"
          /\ NextCommand(writeRegisterWithOrMaskFrame(SYSTEM_CONFIG, U32(0, 3)), "null", 0)
          /\ UNCHANGED ret
  /\ UNCHANGED <<bigEndian, vi, ta, chip, busy, rstLine, opWaited, rx, mem, call, rstLog>>

sendData_or ==
  /\ pc = "sendData_or"
  /\ tpc = "ret"
  /\ loc' = Seen(loc)
  /\ IF ~tres
     THEN Return(Ok(FALSE))
     ELSE /\ pc' = "sendData_state"
          /\ NextCommand(readRegisterFrame(RF_STATUS), "val", 4)
          /\ UNCHANGED ret
  /\ UNCHANGED <<bigEndian, vi, ta, chip, busy, rstLine, opWaited, rx, mem, call, rstLog>>

sendData_state ==
  /\ pc = "sendData_state"
  /\ tpc = "ret"
  /\ loc' = [Seen(loc) EXCEPT !.transceiveState = getTransceiveState]
  /\ IF PN5180_TS_WaitTransmit # getTransceiveState
     THEN Return(Ok(FALSE))
     ELSE /\ pc' = "sendData_send"
          /\ NextCommand(cmd_SendDataFrame(DataReply(SendSeed, call.len), call.len,
                                           call.validBits), "null", 0)
          /\ UNCHANGED ret
  /\ UNCHANGED <<bigEndian, vi, ta, chip, busy, rstLine, opWaited, rx, mem, call, rstLog>>

sendData_send ==
  /\ pc = "sendData_send"
  /\ tpc = "ret"
  /\ loc' = Seen(loc)
  /\ Return(Ok(tres))
  /\ UNCHANGED <<bigEndian, vi, ta, chip, busy, rstLine, opWaited, rx, mem, call, rstLog>>

(***************************************************************************)
(* readData(int len), src/PN5180.cpp 440-492.                              *)
(***************************************************************************)
ReadLenArgs == {-1, 0, 16, 17, 508, 509}

readDataFrame == <<PN5180_READ_DATA, 0>>

readDataRejects(len) == len < 0 \/ len > 508

(* mutant: a 16-byte read goes to the large buffer *)
readDataBuffer_Less(len) == IF len < 16 THEN "static16" ELSE "dyn508"

(* the buffer readData reads into *)
readDataBuffer(len) == IF len <= 16 THEN "static16" ELSE "dyn508"

(* mutant: the large buffer is allocated by every long read *)
readDataAllocates_Always(len, ptr) == readDataBuffer(len) = "dyn508"

(* if (!readBufferDynamic508) readBufferDynamic508 = malloc(508); ptr is the
   buffer behind readBufferDynamic508, empty while the pointer is null *)
readDataAllocates(len, ptr) == readDataBuffer(len) = "dyn508" /\ ptr = << >>

readData_call ==
  \E len \in ReadLenArgs, mallocOk \in BOOLEAN :
    /\ Enter([NoCall EXCEPT !.name = "readData", !.len = len])
    /\ UNCHANGED rstLine
    /\ IF readDataRejects(len)
       THEN /\ pc' = "done"
            /\ loc' = NoLoc
            /\ mem' = FreshMem
            /\ NoBusActivity
       ELSE IF readDataAllocates(len, mem.dyn508) /\ ~mallocOk
       THEN /\ pc' = "done"
            /\ loc' = NoLoc
            /\ mem' = FreshMem
            /\ NoBusActivity
       ELSE /\ pc' = "readData"
            /\ loc' = [NoLoc EXCEPT !.readBuffer = readDataBuffer(len)]
            /\ mem' = IF readDataAllocates(len, mem.dyn508)
                      THEN [FreshMem EXCEPT !.dyn508 = Fill(508, 0),
                                            !.mallocs = @ + 1]
                      ELSE FreshMem
            /\ FirstCommand(readDataFrame, readDataBuffer(len), len)

readData_ret ==
  /\ pc = "readData"
  /\ tpc = "ret"
  /\ loc' = Seen(loc)
  /\ Return(IF tres THEN [ok |-> TRUE, buf |-> loc.readBuffer] ELSE NoRet)
  /\ UNCHANGED <<bigEndian, vi, ta, chip, busy, rstLine, opWaited, rx, mem, call, rstLog>>

(***************************************************************************)
(* setRF_on and setRF_off, src/PN5180.cpp 666-764, with cmd_RfOn and       *)
(* cmd_RfOff, 1104-1148, and clearIRQStatus, 969-985.                      *)
(***************************************************************************)
cmd_RfOnFrame(parameter) == <<PN5180_RF_ON, parameter>>

cmd_RfOffFrame(parameter) == <<PN5180_RF_OFF, parameter>>

(* mutant: the mask is written to the status register *)
clearIRQStatusFrame_ToStatus(irqMask) == writeRegisterFrame(IRQ_STATUS, irqMask)

clearIRQStatusFrame(irqMask) == writeRegisterFrame(IRQ_CLEAR, irqMask)

(* mutant: both calls wait for the field-on flag *)
setRF_flag_AlwaysOn(name) == TX_RFON_IRQ_STAT

(* the flag each of the two calls waits for and then clears *)
setRF_flag(name) == IF name = "setRF_on" THEN TX_RFON_IRQ_STAT ELSE TX_RFOFF_IRQ_STAT

setRF_call ==
  \E name \in {"setRF_on", "setRF_off"} :
    /\ Enter([NoCall EXCEPT !.name = name])
    /\ pc' = "setRF_cmd"
    /\ loc' = NoLoc
    /\ mem' = FreshMem
    /\ FirstCommand(IF name = "setRF_on" THEN cmd_RfOnFrame(0) ELSE cmd_RfOffFrame(0),
                    "null", 0)
    /\ UNCHANGED rstLine

(* the field command is back; startedWaiting = millis(); first poll *)
setRF_cmd ==
  /\ pc = "setRF_cmd"
  /\ tpc = "ret"
  /\ loc' = Seen(loc)
  /\ IF ~tres
     THEN /\ Return(Ok(FALSE))
          /\ UNCHANGED opWaited
     ELSE /\ pc' = "setRF_poll"
          /\ opWaited' = 0
          /\ NextCommand(readRegisterFrame(IRQ_STATUS), "val", 4)
          /\ UNCHANGED ret
  /\ UNCHANGED <<bigEndian, vi, ta, chip, busy, rstLine, rx, mem, call, rstLog>>

(* one turn of while (1) { readRegister; flag set: break; timeout: return false } *)
setRF_poll ==
  /\ pc = "setRF_poll"
  /\ tpc = "ret"
  /\ LET irqStatus == FromHostBytes(mem.val, bigEndian)
     IN  IF ~tres
         THEN /\ Return(Ok(FALSE))
              /\ loc' = Seen(loc)
         ELSE IF And32(setRF_flag(call.name), irqStatus) # Zero32
         THEN /\ pc' = "setRF_clear"
              /\ loc' = [Seen(loc) EXCEPT !.irqStatus = irqStatus, !.flagSeen = TRUE]
              /\ NextCommand(clearIRQStatusFrame(setRF_flag(call.name)), "null", 0)
              /\ UNCHANGED ret
         ELSE IF opWaited > SetRfTimeoutTicks
         THEN /\ Return(Ok(FALSE))
              /\ loc' = [Seen(loc) EXCEPT !.irqStatus = irqStatus, !.timedOut = TRUE]
         ELSE /\ pc' = "setRF_poll"
              /\ loc' = [Seen(loc) EXCEPT !.irqStatus = irqStatus]
              /\ NextCommand(readRegisterFrame(IRQ_STATUS), "val", 4)
              /\ UNCHANGED ret
  /\ UNCHANGED <<bigEndian, vi, ta, chip, busy, rstLine, opWaited, rx, mem, call, rstLog>>

setRF_clear ==
  /\ pc = "setRF_clear"
  /\ tpc = "ret"
  /\ loc' = Seen(loc)
  /\ Return(Ok(tres))
  /\ UNCHANGED <<bigEndian, vi, ta, chip, busy, rstLine, opWaited, rx, mem, call, rstLog>>

(***************************************************************************)
(* reset, src/PN5180.cpp 914-941, with getIRQStatus, 947-967.              *)
(***************************************************************************)
Pulse(lowMs, highMs) == [low |-> lowMs, high |-> highMs]

(* the value getIRQStatus returns once readRegister(IRQ_STATUS) is back *)
getIRQStatus == IF ~tres THEN Zero32 ELSE FromHostBytes(mem.val, bigEndian)

(* digitalWrite(PN5180_RST, LOW); delay(1) *)
reset_call ==
  /\ Enter([NoCall EXCEPT !.name = "reset"])
  /\ pc' = "reset_low"
  /\ rstLine' = LOW
  /\ loc' = NoLoc
  /\ mem' = FreshMem
  /\ NoBusActivity

(* digitalWrite(PN5180_RST, HIGH); delay(5); startedWaiting = millis(); first poll *)
reset_high ==
  /\ pc = "reset_low"
  /\ rstLine' = HIGH
  /\ rstLog' = Append(rstLog, Pulse(1, 5))
  /\ opWaited' = 0
  /\ pc' = "reset_poll"
  /\ NextCommand(readRegisterFrame(IRQ_STATUS), "val", 4)
  /\ UNCHANGED <<bigEndian, vi, ta, chip, busy, rx, mem, call, ret, loc>>

(* one turn of while (0 == (IDLE_IRQ_STAT & getIRQStatus())) { timeout: ... } *)
reset_poll ==
  /\ pc = "reset_poll"
  /\ tpc = "ret"
  /\ IF And32(IDLE_IRQ_STAT, getIRQStatus) # Zero32
     THEN /\ Return(Ok(TRUE))
          /\ loc' = [Seen(loc) EXCEPT !.irqStatus = getIRQStatus, !.flagSeen = TRUE]
          /\ UNCHANGED rstLine
     ELSE IF opWaited > CommandTimeoutTicks
     THEN /\ pc' = "reset_retry"
          /\ rstLine' = LOW
          /\ loc' = [Seen(loc) EXCEPT !.irqStatus = getIRQStatus, !.timedOut = TRUE]
          /\ tpc' = "idle"
          /\ UNCHANGED <<tframe, tdst, trlen, tres, tlog, waited, nss, cmds, ret>>
     ELSE /\ pc' = "reset_poll"
          /\ loc' = [Seen(loc) EXCEPT !.irqStatus = getIRQStatus]
          /\ NextCommand(readRegisterFrame(IRQ_STATUS), "val", 4)
          /\ UNCHANGED <<ret, rstLine>>
  /\ UNCHANGED <<bigEndian, vi, ta, chip, busy, opWaited, rx, mem, call, rstLog>>

(* mutant: after the second pulse the polling goes on *)
reset_retry_PollsAgain ==
  /\ pc = "reset_retry"
  /\ rstLine' = HIGH
  /\ rstLog' = Append(rstLog, Pulse(10, 50))
  /\ opWaited' = 0
  /\ pc' = "reset_poll"
  /\ NextCommand(readRegisterFrame(IRQ_STATUS), "val", 4)
  /\ UNCHANGED <<bigEndian, vi, ta, chip, busy, rx, mem, call, ret, loc>>

(* delay(10); digitalWrite(PN5180_RST, HIGH); delay(50); return *)
reset_retry ==
  /\ pc = "reset_retry"
  /\ rstLine' = HIGH
  /\ rstLog' = Append(rstLog, Pulse(10, 50))
  /\ pc' = "done"
  /\ ret' = Ok(FALSE)
  /\ UNCHANGED <<bigEndian, vi, ta, chip, nss, busy, waited, opWaited, tpc, tframe, tdst, trlen,
                 tres, tlog, rx, mem, call, cmds, loc>>

(***************************************************************************)
(* getIRQStatus and clearIRQStatus as calls of their own,                  *)
(* src/PN5180.cpp 947-985.                                                 *)
(***************************************************************************)
MaskArgs == {U32(0, 4), U32(0, 512), U32(65535, 65535)}

(* mutant: the status is fetched with a clearing write *)
getIRQStatus_call_Clears ==
  /\ Enter([NoCall EXCEPT !.name = "getIRQStatus"])
  /\ pc' = "getIRQStatus"
  /\ loc' = NoLoc
  /\ mem' = FreshMem
  /\ FirstCommand(writeRegisterFrame(IRQ_CLEAR, U32(65535, 65535)), "val", 4)
  /\ UNCHANGED rstLine

getIRQStatus_call ==
  /\ Enter([NoCall EXCEPT !.name = "getIRQStatus"])
  /\ pc' = "getIRQStatus"
  /\ loc' = NoLoc
  /\ mem' = FreshMem
  /\ FirstCommand(readRegisterFrame(IRQ_STATUS), "val", 4)
  /\ UNCHANGED rstLine

(* the value returned is kept in loc.irqStatus; ret.ok tells whether the
   read behind it succeeded *)
getIRQStatus_ret ==
  /\ pc = "getIRQStatus"
  /\ tpc = "ret"
  /\ loc' = [Seen(loc) EXCEPT !.irqStatus = getIRQStatus]
  /\ Return(Ok(tres))
  /\ UNCHANGED <<bigEndian, vi, ta, chip, busy, rstLine, opWaited, rx, mem, call, rstLog>>

clearIRQStatus_call ==
  \E irqMask \in MaskArgs :
    /\ Enter([NoCall EXCEPT !.name = "clearIRQStatus", !.value = irqMask])
    /\ pc' = "clearIRQStatus"
    /\ loc' = NoLoc
    /\ mem' = FreshMem
    /\ FirstCommand(clearIRQStatusFrame(irqMask), "null", 0)
    /\ UNCHANGED rstLine

clearIRQStatus_ret ==
  /\ pc = "clearIRQStatus"
  /\ tpc = "ret"
  /\ loc' = Seen(loc)
  /\ Return(Ok(tres))
  /\ UNCHANGED <<bigEndian, vi, ta, chip, busy, rstLine, opWaited, rx, mem, call, rstLog>>

(***************************************************************************)
(* The ISO 14443 layer, src/PN5180ISO14443.cpp: activateTypeA (88-312)     *)
(* and readCardSerial (367-432).  A step of this layer is one call of the  *)
(* command layer, taken as a whole with its result: a command either       *)
(* succeeds or reports failure because an exchange behind it timed out     *)
(* (sendData also when the transceiver is not in WaitTransmit).            *)
(* C arrays are 0-based, sequences 1-based: buffer[i] of the source is     *)
(* ta.buffer[i + 1].  Besides the variables of the source, ta keeps the    *)
(* history of the call: the data of its successful reads (reads), the card *)
(* frames handed to the chip (cards), the steps that reported failure      *)
(* (failed) and those among them with a bus timeout (timedOut).            *)
(***************************************************************************)
drv == <<bigEndian, nss, busy, rstLine, waited, opWaited, tpc, tframe, tdst,
         trlen, tres, tlog, rx, mem, pc, call, ret, cmds, loc, rstLog, chip,
         vi>>

(* iterations of the wait for WaitTransmit that fit into its 200 ms *)
TypeAWaitTicks == 1

PN5180_TS_WaitReceive == 3

NoTa == [pc |-> "idle", name |-> "none", kind |-> 0, card |-> FALSE,
         buffer |-> Fill(10, 0), cmd |-> Fill(7, 0), uid |-> Fill(10, 238),
         uidLength |-> 0, ret |-> 0, reads |-> << >>, failed |-> {},
         timedOut |-> {}, cards |-> << >>, elapsed |-> 0,
         crc |-> [rx |-> 1, tx |-> 1], crcAt |-> << >>]

(* seq with data stored from 0-based offset off on *)
Poke(seq, off, data) ==
  [i \in 1..Len(seq) |->
     IF i > off /\ i <= off + Len(data) THEN data[i - off] ELSE seq[i]]

(* what the card, or the empty reception buffer, answers *)
AtqaReplies == { <<68, 0>>, <<255, 255>> }

NoCardReplies == { <<0, 0>> }

Anticoll1Replies ==
  { <<4, 18, 52, 86, 116>>, <<0, 18, 52, 86, 112>>, <<255, 18, 52, 86, 143>>,
    <<4, 0, 255, 0, 251>>, <<136, 17, 34, 51, 136>>, <<136, 0, 34, 51, 153>>,
    <<136, 255, 34, 51, 102>> }

Anticoll2Replies ==
  { <<68, 85, 102, 119, 0>>, <<136, 85, 102, 119, 204>>, <<0, 0, 0, 0, 0>>,
    <<255, 255, 255, 255, 0>> }

Sak1Replies == { <<8>>, <<4>> }

Sak2Replies == { <<0>> }

RxLenReplies == {0, 5, 261}

SendDataOutcomes == {"ok", "timeoutBeforeSend", "notWaitTransmit", "timeoutAfterSend"}

(* return r from activateTypeA: to the caller, or back into readCardSerial *)
TaRet(t, r) ==
  [t EXCEPT !.pc = IF t.name = "readCardSerial" THEN "filter" ELSE "done",
            !.uidLength = r, !.ret = r]

TaFailed(t, step) == [t EXCEPT !.failed = @ \cup {step}, !.timedOut = @ \cup {step}]

(* if (!command(...)) return onFail; *)
TaCmd(next, onFail) ==
  /\ \E ok \in BOOLEAN :
        ta' = IF ok THEN [ta EXCEPT !.pc = next]
              ELSE TaRet(TaFailed(ta, ta.pc), onFail)
  /\ UNCHANGED drv

(* command(...); the result is not looked at *)
TaCmdIgnored(next) ==
  /\ \E ok \in BOOLEAN :
        ta' = IF ok THEN [ta EXCEPT !.pc = next]
              ELSE [TaFailed(ta, ta.pc) EXCEPT !.pc = next]
  /\ UNCHANGED drv

(* the 32-bit value the chip takes from the four mask bytes of a frame *)
ChipSees(mask, be) == FromHostBytes(HostBytes(mask, be), FALSE)

(* if (!writeRegisterWithAndMask(reg, mask)) return onFail; respectively
   writeRegisterWithOrMask, on CRC_RX_CONFIG ("rx") or CRC_TX_CONFIG ("tx"):
   bit 0 of the register switches the CRC.  A write that reports failure
   timed out before or after its frame went out. *)
TaCrc(reg, op, mask, next, onFail) ==
  /\ \E ok \in BOOLEAN, arrived \in BOOLEAN :
        LET m == ChipSees(mask, bigEndian).lo % 2
            bit == IF op = "and" THEN BitAnd16(ta.crc[reg], m, 1)
                   ELSE IF ta.crc[reg] = 1 \/ m = 1 THEN 1 ELSE 0
        IN  ta' = IF ok THEN [ta EXCEPT !.pc = next, !.crc[reg] = bit]
                  ELSE TaRet([TaFailed(ta, ta.pc) EXCEPT
                                !.crc[reg] = IF arrived THEN bit ELSE @], onFail)
  /\ UNCHANGED drv

(* cmd[0..] = frame; if (!sendData(cmd, Len(frame), validBits)) return onFail; *)
TaSend(frame, next, onFail) ==
  /\ \E o \in SendDataOutcomes :
        LET t0 == [ta EXCEPT !.cmd = Poke(@, 0, frame),
                             !.cards = IF o \in {"ok", "timeoutAfterSend"}
                                       THEN Append(@, frame) ELSE @,
                             !.crcAt = IF o \in {"ok", "timeoutAfterSend"}
                                       THEN Append(@, ta.crc) ELSE @]
            t1 == IF o = "notWaitTransmit"
                  THEN [t0 EXCEPT !.failed = @ \cup {ta.pc}]
                  ELSE TaFailed(t0, ta.pc)
        IN  ta' = IF o = "ok" THEN [t0 EXCEPT !.pc = next] ELSE TaRet(t1, onFail)
  /\ UNCHANGED drv

activateTypeA_call ==
  /\ ta.pc = "idle"
  /\ pc = "idle"
  /\ vi.pc = "idle"
  /\ \E kind \in {0, 1}, card \in BOOLEAN, rx0 \in {0, 1}, tx0 \in {0, 1} :
        ta' = [NoTa EXCEPT !.pc = "loadRFConfig", !.name = "activateTypeA",
                           !.kind = kind, !.card = card, !.buffer = Fill(10, 238),
                           !.crc = [rx |-> rx0, tx |-> tx0]]
  /\ UNCHANGED drv

(* uint8_t response[10] = { 0 }; activateTypeA(response, 0) *)
readCardSerial_call ==
  /\ ta.pc = "idle"
  /\ pc = "idle"
  /\ vi.pc = "idle"
  /\ \E card \in BOOLEAN, rx0 \in {0, 1}, tx0 \in {0, 1} :
        ta' = [NoTa EXCEPT !.pc = "loadRFConfig", !.name = "readCardSerial",
                           !.kind = 0, !.card = card, !.buffer = Fill(10, 0),
                           !.crc = [rx |-> rx0, tx |-> tx0]]
  /\ UNCHANGED drv

ta_loadRFConfig == ta.pc = "loadRFConfig" /\ TaCmd("setRF_on", -1)

ta_setRF_on == ta.pc = "setRF_on" /\ TaCmdIgnored("cryptoOff")

ta_cryptoOff == ta.pc = "cryptoOff" /\ TaCmd("rxCrcOff", -1)

ta_rxCrcOff == ta.pc = "rxCrcOff" /\ TaCrc("rx", "and", U32(65535, 65534), "txCrcOff", -1)

ta_txCrcOff == ta.pc = "txCrcOff" /\ TaCrc("tx", "and", U32(65535, 65534), "idleCmd", -1)

ta_idleCmd == ta.pc = "idleCmd" /\ TaCmd("transceiveCmd", -1)

ta_transceiveCmd == ta.pc = "transceiveCmd" /\ TaCmd("state", -1)

(* getTransceiveState: the state read, PN5180_TS_Idle when the read failed *)
ta_state ==
  /\ ta.pc = "state"
  /\ \E ok \in BOOLEAN, st \in {PN5180_TS_Idle, PN5180_TS_WaitTransmit} :
        LET transceiveState == IF ok THEN st ELSE PN5180_TS_Idle
            t == IF ok THEN ta ELSE TaFailed(ta, "state")
        IN  ta' = IF PN5180_TS_WaitTransmit # transceiveState
                  THEN TaRet(t, -1)
                  ELSE [t EXCEPT !.pc = "clearIRQ"]
  /\ UNCHANGED drv

ta_clearIRQ == ta.pc = "clearIRQ" /\ TaCmdIgnored("reqa")

ta_reqa == ta.pc = "reqa" /\ TaSend(<<IF ta.kind = 0 THEN 38 ELSE 82>>, "atqa", 0)

(* readData(2, buffer) *)
ta_atqa ==
  /\ ta.pc = "atqa"
  /\ \E ok \in BOOLEAN, data \in (IF ta.card THEN AtqaReplies ELSE NoCardReplies) :
        ta' = IF ok
              THEN [ta EXCEPT !.pc = "wait", !.buffer = Poke(@, 0, data),
                              !.reads = Append(@, data), !.elapsed = 0]
              ELSE TaRet(TaFailed(ta, "atqa"), 0)
  /\ UNCHANGED drv

(* one turn of while (PN5180_TS_WaitTransmit != getTransceiveState()) {
   delay(1); more than 200 ms: return -1 } *)
ta_wait ==
  /\ ta.pc = "wait"
  /\ \E ok \in BOOLEAN,
        st \in (IF ta.card THEN {PN5180_TS_WaitTransmit, PN5180_TS_WaitReceive}
                ELSE {PN5180_TS_WaitReceive}) :
        LET transceiveState == IF ok THEN st ELSE PN5180_TS_Idle
            t == IF ok THEN ta ELSE TaFailed(ta, "wait")
        IN  ta' = IF PN5180_TS_WaitTransmit = transceiveState
                  THEN [t EXCEPT !.pc = "clearIRQ2"]
                  ELSE IF ta.elapsed + 1 > TypeAWaitTicks
                  THEN TaRet(t, -1)
                  ELSE [t EXCEPT !.elapsed = @ + 1]
  /\ UNCHANGED drv

ta_clearIRQ2 == ta.pc = "clearIRQ2" /\ TaCmdIgnored("anticoll1")

ta_anticoll1 == ta.pc = "anticoll1" /\ TaSend(<<147, 32>>, "rxBytes", -2)

(* uint8_t numBytes = rxBytesReceived(): the low 9 bits of RX_STATUS, cut to
   8 bits; the result of the register read behind it is not looked at *)
ta_rxBytes ==
  /\ ta.pc = "rxBytes"
  /\ \E ok \in BOOLEAN, len \in RxLenReplies :
        LET numBytes == len % 256
            t == IF ok THEN ta ELSE TaFailed(ta, "rxBytes")
        IN  ta' = IF numBytes # 5 THEN TaRet(t, -2)
                  ELSE [t EXCEPT !.pc = "readUid1"]
  /\ UNCHANGED drv

(* readData(5, cmd+2); for (i < 4) buffer[i] = cmd[2 + i]; *)
ta_readUid1 ==
  /\ ta.pc = "readUid1"
  /\ \E ok \in BOOLEAN, data \in Anticoll1Replies :
        ta' = IF ok
              THEN [ta EXCEPT !.pc = "rxCrcOn1", !.cmd = Poke(@, 2, data),
                              !.reads = Append(@, data),
                              !.buffer = Poke(@, 0, SubSeq(data, 1, 4))]
              ELSE TaRet(TaFailed(ta, "readUid1"), -2)
  /\ UNCHANGED drv

ta_rxCrcOn1 == ta.pc = "rxCrcOn1" /\ TaCrc("rx", "or", U32(0, 1), "txCrcOn1", -2)

ta_txCrcOn1 == ta.pc = "txCrcOn1" /\ TaCrc("tx", "or", U32(0, 1), "select1", -2)

(* cmd[0] = level; cmd[1] = 0x70; the five bytes read are at cmd[2..6] *)
SelectFrame(level, cmd) == <<level, 112>> \o SubSeq(cmd, 3, 7)

(* if (!sendData(cmd, 7, 0x00)) return 4; *)
ta_select1 == ta.pc = "select1" /\ TaSend(SelectFrame(147, ta.cmd), "sak1", 4)

(* mutant: bit 3 is taken as mask 0x08 *)
CascadeBitSet_Mask8(sak) == (sak \div 8) % 2 = 1

(* (buffer[2] & 0x04) != 0 *)
CascadeBitSet(sak) == (sak \div 4) % 2 = 1

(* mutant: the cascade tag is copied as the first UID byte *)
CascadeUid_KeepsTag(buffer, cmd) == Poke(buffer, 3, SubSeq(cmd, 3, 5))

(* for (i < 3) buffer[3+i] = cmd[3 + i]; *)
CascadeUid(buffer, cmd) == Poke(buffer, 3, SubSeq(cmd, 4, 6))

(* mutant: any first byte passes as the cascade tag *)
CascadeTagMissing_Never(cmd) == FALSE

(* cmd[2] != 0x88 *)
CascadeTagMissing(cmd) == cmd[3] # 136

(* readData(1, buffer+2) and the test of the cascade bit *)
ta_sak1 ==
  /\ ta.pc = "sak1"
  /\ \E ok \in BOOLEAN, data \in Sak1Replies :
        LET t == [ta EXCEPT !.buffer = Poke(@, 2, data), !.reads = Append(@, data)]
        IN  ta' = IF ~ok THEN TaRet(TaFailed(ta, "sak1"), -2)
                  ELSE IF ~CascadeBitSet(t.buffer[3])
                  THEN TaRet([t EXCEPT !.buffer = Poke(@, 3, SubSeq(ta.cmd, 3, 6))], 4)
                  ELSE IF CascadeTagMissing(ta.cmd) THEN TaRet(t, 0)
                  ELSE [t EXCEPT !.pc = "rxCrcOff2",
                                 !.buffer = CascadeUid(@, ta.cmd)]
  /\ UNCHANGED drv

ta_rxCrcOff2 == ta.pc = "rxCrcOff2" /\ TaCrc("rx", "and", U32(65535, 65534), "txCrcOff2", -2)

(* mutant: the TX CRC is left on for the second anticollision *)
ta_txCrcOff2_Skipped == ta.pc = "txCrcOff2" /\ TaCmd("anticoll2", -2)

ta_txCrcOff2 == ta.pc = "txCrcOff2" /\ TaCrc("tx", "and", U32(65535, 65534), "anticoll2", -2)

ta_anticoll2 == ta.pc = "anticoll2" /\ TaSend(<<149, 32>>, "readUid2", -2)

(* readData(5, cmd+2); for (i < 4) buffer[6 + i] = cmd[2+i]; *)
ta_readUid2 ==
  /\ ta.pc = "readUid2"
  /\ \E ok \in BOOLEAN, data \in Anticoll2Replies :
        ta' = IF ok
              THEN [ta EXCEPT !.pc = "rxCrcOn2", !.cmd = Poke(@, 2, data),
                              !.reads = Append(@, data),
                              !.buffer = Poke(@, 6, SubSeq(data, 1, 4))]
              ELSE TaRet(TaFailed(ta, "readUid2"), -2)
  /\ UNCHANGED drv

ta_rxCrcOn2 == ta.pc = "rxCrcOn2" /\ TaCrc("rx", "or", U32(0, 1), "txCrcOn2", -2)

ta_txCrcOn2 == ta.pc = "txCrcOn2" /\ TaCrc("tx", "or", U32(0, 1), "select2", -2)

ta_select2 == ta.pc = "select2" /\ TaSend(SelectFrame(149, ta.cmd), "sak2", -2)

(* readData(1, buffer + 2); uidLength = 7 *)
ta_sak2 ==
  /\ ta.pc = "sak2"
  /\ \E ok \in BOOLEAN, data \in Sak2Replies :
        ta' = IF ok
              THEN TaRet([ta EXCEPT !.buffer = Poke(@, 2, data),
                                    !.reads = Append(@, data)], 7)
              ELSE TaRet(TaFailed(ta, "sak2"), -2)
  /\ UNCHANGED drv

(***************************************************************************)
(* readCardSerial after activateTypeA has returned: the validity filter.   *)
(* response[i] of the source is response[i + 1].                           *)
(***************************************************************************)
AllAre(response, from, to, b) == \A i \in from..to : response[i + 1] = b

(* mutant: the cascade tag inside a 7-byte UID is let through *)
readCardSerialFilter_NoTagCheck(uidLength0, response) ==
  LET l1 == IF response[1] = 255 /\ response[2] = 255 THEN 0 ELSE uidLength0
      uidLength == IF response[4] = 0 \/ response[4] = 255 THEN 0 ELSE l1
      v0 == \E i \in 1..(uidLength - 1) : response[i + 4] # 0 /\ response[i + 4] # 255
      v4 == IF uidLength = 4 /\ response[4] = 136 THEN FALSE ELSE v0
      v7 == IF uidLength = 7 /\ (\/ AllAre(response, 6, 9, 0)
                                 \/ AllAre(response, 6, 9, 255))
            THEN FALSE ELSE v4
  IN  IF v7 THEN uidLength ELSE 0

(* the value readCardSerial returns for a positive activation result *)
readCardSerialFilter(uidLength0, response) ==
  LET l1 == IF response[1] = 255 /\ response[2] = 255 THEN 0 ELSE uidLength0
      uidLength == IF response[4] = 0 \/ response[4] = 255 THEN 0 ELSE l1
      v0 == \E i \in 1..(uidLength - 1) : response[i + 4] # 0 /\ response[i + 4] # 255
      v4 == IF uidLength = 4 /\ response[4] = 136 THEN FALSE ELSE v0
      v7 == IF uidLength = 7 /\ (\/ response[7] = 136
                                 \/ AllAre(response, 6, 9, 0)
                                 \/ AllAre(response, 6, 9, 255))
            THEN FALSE ELSE v4
  IN  IF v7 THEN uidLength ELSE 0

readCardSerial_filter ==
  /\ ta.pc = "filter"
  /\ LET n == IF ta.uidLength <= 0 THEN ta.uidLength
              ELSE IF ta.uidLength < 4 THEN 0
              ELSE readCardSerialFilter(ta.uidLength, ta.buffer)
     IN  ta' = [ta EXCEPT !.pc = "done", !.ret = n,
                          !.uid = IF n > 0 THEN Poke(@, 0, SubSeq(ta.buffer, 4, 3 + n))
                                  ELSE @]
  /\ UNCHANGED drv

(* the caller goes on to its next call *)
taContinues ==
  /\ ta.pc = "done"
  /\ ta' = NoTa
  /\ UNCHANGED drv

(***************************************************************************)
(* The ISO 15693 layer, src/PN5180ISO15693.cpp.  As in the ISO 14443 layer *)
(* a step is one call of the command layer with its result.  vi holds the  *)
(* call in progress: its arguments, the variables of the source, and the   *)
(* history of the call: the card frames handed to the chip (sent), the     *)
(* steps whose command reported failure (failed) and those among them with *)
(* a bus timeout (timedOut).  resp is the 16-byte buffer readData reads a  *)
(* short response into: readBuffer[i] of the source is resp[i + 1].  The   *)
(* bytes behind the response are those of earlier reads; they are taken as *)
(* the zeros the static buffer starts with.                                *)
(* Of the chip vi holds the flags of IRQ_STATUS (pend), which the chip     *)
(* sets and only a write to IRQ_CLEAR takes back, and the response in its  *)
(* reception buffer (last), which stays until the next one arrives.  A tag *)
(* answers only a request that went out (onAir); answered says that one    *)
(* did so in the call in progress.                                         *)
(***************************************************************************)
cmdLayer == <<bigEndian, nss, busy, rstLine, waited, opWaited, tpc, tframe,
              tdst, trlen, tres, tlog, rx, mem, pc, call, ret, cmds, loc,
              rstLog, chip>>

(* interrupt flags tested by the layer *)
RX_IRQ_STAT == U32(0, 1)
TX_IRQ_STAT == U32(0, 2)
RX_SOF_DET_IRQ_STAT == U32(0, 16384)

(* enum ISO15693ErrorCode *)
EC_NO_CARD == -1
ISO15693_EC_OK == 0
ISO15693_EC_UNKNOWN_ERROR == 15
ISO15693_EC_BLOCK_NOT_AVAILABLE == 16
ISO15693_EC_CUSTOM_CMD_ERROR == 160

ISO15693_CMD_INVENTORY == 1
ISO15693_REQ_FLAG_DATARATE == 2
ISO15693_REQ_FLAG_INVENTORY == 4
ISO15693_REQ_FLAG_NBSLOTS == 32

NoVi == [pc |-> "idle", name |-> "none", blockNo |-> 0, numBlock |-> 0,
         maxTags |-> 0, cmd |-> << >>, sent |-> << >>, irqR |-> Zero32,
         elapsed |-> 0, len |-> 0, card |-> << >>, resp |-> Fill(16, 0), rc |-> 0,
         ret |-> 0, failed |-> {}, timedOut |-> {}, sofAtRead |-> FALSE,
         uid |-> << >>, blockSize |-> 238, numBlocks |-> 238,
         blockData |-> << >>, numCard |-> 0, numCol |-> 0,
         collision |-> << >>, slot |-> 0, maskLen |-> 0, origin |-> << >>,
         cur |-> [M |-> 0, L |-> -1, s |-> 0, r |-> 0], rounds |-> 0,
         total |-> 0, quiet |-> FALSE, owed |-> 0, after |-> 0, ops |-> << >>,
         writes |-> {}, colBefore |-> 0, recorded |-> 0, uidTop |-> -1,
         pend |-> Zero32, last |-> << >>, onAir |-> FALSE, answered |-> FALSE,
         phase |-> "none", password |-> << >>, data |-> << >>, fetched |-> << >>,
         tags |-> {}, uids |-> << >>]

(* the UID the caller addresses, least significant byte first *)
TagUid == <<17, 34, 51, 68, 85, 102, 7, 224>>

(* the flags the chip may raise after a request went out: none, the start of
   a response, a whole response, the end of the transmission *)
VicinityIrqs ==
  { Zero32, RX_SOF_DET_IRQ_STAT, U32(0, 16385), U32(0, 6) }

Or32(a, b) == U32(a.hi + b.hi - BitAnd16(a.hi, b.hi, 16),
                  a.lo + b.lo - BitAnd16(a.lo, b.lo, 16))

(* responses of a card with the error flag set: flags, error code *)
ErrorReplies == { <<1, 16>>, <<1, 181>>, <<1, 0>>, <<1, 159>>, <<1, 160>> }

(* responses to Inventory: flags, DSFID, UID *)
InventoryReplies == { <<0, 0>> \o TagUid, <<0, 9, 1, 2, 3, 4, 5, 6, 7, 224>> }

RawBlockCounts == {0, 27, 255}

RawBlockSizes == {3, 227, 255}

(* responses to Get System Information: flags, info flags, UID, and the
   optional fields DSFID, AFI, memory size (count, size), IC reference *)
SysInfoReplies ==
  { <<0, 0>> \o TagUid }
  \cup { <<0, 4>> \o TagUid \o <<n, b>> : n \in RawBlockCounts, b \in RawBlockSizes }
  \cup { <<0, 15>> \o TagUid \o <<0, 0, n, 3, 1>> : n \in RawBlockCounts }

(* bytes per block of the card that answers Read Multiple Blocks *)
TagBlockSize == 4

(* responses to Read Multiple Blocks: flags, block data *)
BlockReplies(numBlock) ==
  { <<0>> \o DataReply(seed, TagBlockSize * numBlock) : seed \in DataSeeds }

(* responses to Get Random Number: flags and the 16-bit random number *)
RandomReplies == { <<0, 165, 60>>, <<0, 255, 1>> }

RepliesTo(v) ==
  ErrorReplies \cup
  CASE v.name = "getInventory" -> InventoryReplies
    [] v.name = "getSystemInfo" -> SysInfoReplies
    [] v.name = "readMultipleBlock" -> BlockReplies(v.numBlock)
    [] v.phase = "random" -> RandomReplies
    [] v.phase = "apply" -> { <<0>> }

ViFailed(v, step) == [v EXCEPT !.failed = @ \cup {step}, !.timedOut = @ \cup {step}]

(* return r to the caller of the layer *)
ViRet(v, r) == [v EXCEPT !.pc = "done", !.ret = r]

(* issueISO15693Command(cmd, sizeof(cmd), &readBuffer) *)
ViIssue(v, cmd) == [v EXCEPT !.pc = "is_send", !.cmd = cmd]

HasFlag(irq, flag) == And32(irq, flag) # Zero32

(* the layer at the entry of a call: the chip is as the last call left it *)
ViCall(name) == [NoVi EXCEPT !.name = name, !.pend = vi.pend, !.last = vi.last]

(* the chip raises the flags event and, with a whole response, holds reply *)
ChipRaises(v, event, reply) ==
  [v EXCEPT !.pend = Or32(@, event),
            !.answered = @ \/ HasFlag(event, RX_SOF_DET_IRQ_STAT),
            !.last = IF HasFlag(event, RX_IRQ_STAT) THEN reply ELSE @]

(* what the chip may raise while the layer looks at IRQ_STATUS *)
Events(v) == IF v.onAir THEN VicinityIrqs ELSE {Zero32}

(* return rc from issueISO15693Command to the function that called it *)
ViIssueRet(v, rc) == [v EXCEPT !.pc = "after", !.rc = rc]

(* uint8_t inventory[] = { cmd, flags, maskLen } *)
getInventoryRequest ==
  << ISO15693_CMD_INVENTORY,
     ISO15693_REQ_FLAG_NBSLOTS + ISO15693_REQ_FLAG_INVENTORY + ISO15693_REQ_FLAG_DATARATE,
     0 >>

getInventory_call ==
  /\ vi.pc = "idle"
  /\ pc = "idle"
  /\ ta.pc = "idle"
  /\ vi' = ViIssue([ViCall("getInventory") EXCEPT !.uid = Fill(8, 0)],
                   getInventoryRequest)
  /\ UNCHANGED <<cmdLayer, ta>>

(* if (ISO15693_EC_OK != rc) return rc; uid[i] = readBuffer[2+i] *)
getInventory_ret ==
  /\ vi.pc = "after"
  /\ vi.name = "getInventory"
  /\ vi' = IF vi.rc # ISO15693_EC_OK THEN ViRet(vi, vi.rc)
           ELSE ViRet([vi EXCEPT !.uid = SubSeq(vi.resp, 3, 10)], ISO15693_EC_OK)
  /\ UNCHANGED <<cmdLayer, ta>>

BlockNoArgs == {0, 1, 3}

NumBlockArgs == {0, 1, 2, 3}

(* the two range checks; blockNo and numBlock are uint8_t, the arithmetic is
   done in int *)
readMultipleBlockRejects(blockNo, numBlock) ==
  \/ blockNo > numBlock - 1
  \/ (blockNo + numBlock) > numBlock

(* { 0x22, 0x23, uid[0..7], blockNo, uint8_t(numBlock-1) } *)
readMultipleCmd(uid, blockNo, numBlock) ==
  <<34, 35>> \o uid \o <<blockNo, (numBlock - 1) % 256>>

readMultipleBlock_call ==
  /\ vi.pc = "idle"
  /\ pc = "idle"
  /\ ta.pc = "idle"
  /\ \E blockNo \in BlockNoArgs, numBlock \in NumBlockArgs :
        LET v == [ViCall("readMultipleBlock") EXCEPT !.blockNo = blockNo,
                              !.numBlock = numBlock, !.uid = TagUid,
                              !.blockData = Fill(TagBlockSize * numBlock, 238)]
        IN  vi' = IF readMultipleBlockRejects(blockNo, numBlock)
                  THEN ViRet(v, ISO15693_EC_BLOCK_NOT_AVAILABLE)
                  ELSE ViIssue(v, readMultipleCmd(TagUid, blockNo, numBlock))
  /\ UNCHANGED <<cmdLayer, ta>>

(* if (ISO15693_EC_OK != rc) return rc; blockData[i] = resultPtr[1+i] *)
readMultipleBlock_ret ==
  /\ vi.pc = "after"
  /\ vi.name = "readMultipleBlock"
  /\ vi' = IF vi.rc # ISO15693_EC_OK THEN ViRet(vi, vi.rc)
           ELSE ViRet([vi EXCEPT !.blockData =
                          SubSeq(vi.resp, 2, 1 + vi.numBlock * TagBlockSize)],
                      ISO15693_EC_OK)
  /\ UNCHANGED <<cmdLayer, ta>>

(* { 0x22, 0x2b, uid[0..7] } *)
sysInfoCmd(uid) == <<34, 43>> \o uid

getSystemInfo_call ==
  /\ vi.pc = "idle"
  /\ pc = "idle"
  /\ ta.pc = "idle"
  /\ vi' = ViIssue([ViCall("getSystemInfo") EXCEPT !.uid = TagUid],
                   sysInfoCmd(TagUid))
  /\ UNCHANGED <<cmdLayer, ta>>

(* bit k (of value 2^k = m) of byte b *)
BitSet(b, m) == (b \div m) % 2 = 1

(* the 0-based index in readBuffer of the memory size field: p starts at
   readBuffer[10] and steps over DSFID and AFI when their flags are set *)
MemSizeAt(infoFlags) ==
  10 + (IF BitSet(infoFlags, 1) THEN 1 ELSE 0) + (IF BitSet(infoFlags, 2) THEN 1 ELSE 0)

(* *blockSize = ((raw & 0x1f) + 1), stored in a uint8_t *)
blockSizeOf(raw) == ((raw % 32) + 1) % 256

(* *numBlocks = raw + 1, stored in a uint8_t *)
numBlocksOf(raw) == (raw + 1) % 256

getSystemInfo_ret ==
  /\ vi.pc = "after"
  /\ vi.name = "getSystemInfo"
  /\ vi' = IF vi.rc # ISO15693_EC_OK THEN ViRet(vi, vi.rc)
           ELSE LET infoFlags == vi.resp[2]
                    p == MemSizeAt(infoFlags)
                    v == [vi EXCEPT !.uid = SubSeq(vi.resp, 3, 10)]
                IN  IF BitSet(infoFlags, 4)
                    THEN ViRet([v EXCEPT !.numBlocks = numBlocksOf(vi.resp[p + 1]),
                                         !.blockSize = blockSizeOf(vi.resp[p + 2])],
                               ISO15693_EC_OK)
                    ELSE ViRet(v, ISO15693_EC_OK)
  /\ UNCHANGED <<cmdLayer, ta>>

(***************************************************************************)
(* enablePrivacyMode and disablePrivacyMode (784-809) with getRandomNumber *)
(* (738-747), setPassword (754-763) and enablePrivacy (770-779).  phase    *)
(* says which of the two commands of the call is in progress; fetched is   *)
(* the response the random number was taken from.                          *)
(***************************************************************************)
Passwords == { <<15, 240, 85, 170>>, <<0, 0, 0, 0>> }

Xor8(a, b) == a + b - 2 * BitAnd16(a, b, 8)

(* uint8_t getrandom[] = {0x02, 0xB2, 0x04} *)
getRandomNumberCmd == <<2, 178, 4>>

(* setPassword[] = {0x02, 0xB3, 0x04, identifier, password[0] ^ random[0],
   password[1] ^ random[1], password[2] ^ random[0], password[3] ^ random[1]} *)
setPasswordCmd(identifier, password, random) ==
  <<2, 179, 4, identifier,
    Xor8(password[1], random[1]), Xor8(password[2], random[2]),
    Xor8(password[3], random[1]), Xor8(password[4], random[2])>>

(* mutant: the password goes out as it is *)
enablePrivacyCmd_Plain(password, random) == <<2, 186, 4>> \o password

(* setPrivacy[] = {0x02, 0xBA, 0x04, password[0] ^ random[0],
   password[1] ^ random[1], password[2] ^ random[0], password[3] ^ random[1]} *)
enablePrivacyCmd(password, random) ==
  <<2, 186, 4,
    Xor8(password[1], random[1]), Xor8(password[2], random[2]),
    Xor8(password[3], random[1]), Xor8(password[4], random[2])>>

(* uint8_t data[] = {0x00, 0x00}; rc = getRandomNumber(data) *)
privacyMode_call ==
  /\ vi.pc = "idle"
  /\ pc = "idle"
  /\ ta.pc = "idle"
  /\ \E name \in {"enablePrivacyMode", "disablePrivacyMode"},
        password \in Passwords :
        vi' = ViIssue([ViCall(name) EXCEPT !.phase = "random",
                                           !.password = password,
                                           !.data = <<0, 0>>],
                      getRandomNumberCmd)
  /\ UNCHANGED <<cmdLayer, ta>>

(* getRandomNumber: if (rc == ISO15693_EC_OK) randomData[i] = readBuffer[1+i];
   its caller: if (rc != ISO15693_EC_OK) return rc; then
   enablePrivacy(password, data), respectively setPassword(0x04, password, data) *)
getRandomNumber_ret ==
  /\ vi.pc = "after"
  /\ vi.phase = "random"
  /\ LET data == SubSeq(vi.resp, 2, 3)
         v == [vi EXCEPT !.phase = "apply", !.data = data, !.fetched = vi.card,
                         !.onAir = FALSE, !.answered = FALSE,
                         !.sofAtRead = FALSE, !.elapsed = 0, !.irqR = Zero32]
     IN  vi' = IF vi.rc # ISO15693_EC_OK THEN ViRet(vi, vi.rc)
               ELSE ViIssue(v, IF vi.name = "enablePrivacyMode"
                               THEN enablePrivacyCmd(vi.password, data)
                               ELSE setPasswordCmd(4, vi.password, data))
  /\ UNCHANGED <<cmdLayer, ta>>

(* return rc; *)
privacyMode_ret ==
  /\ vi.pc = "after"
  /\ vi.phase = "apply"
  /\ vi' = ViRet(vi, vi.rc)
  /\ UNCHANGED <<cmdLayer, ta>>

(* sendData(cmd, cmdLen); delay(10); the result is not looked at *)
is_send ==
  /\ vi.pc = "is_send"
  /\ \E o \in SendDataOutcomes :
        LET v0 == [vi EXCEPT !.sent = IF o \in {"ok", "timeoutAfterSend"}
                                      THEN Append(@, vi.cmd) ELSE @]
            v1 == IF o = "ok" THEN v0
                  ELSE IF o = "notWaitTransmit"
                  THEN [v0 EXCEPT !.failed = @ \cup {"is_send"}]
                  ELSE ViFailed(v0, "is_send")
        IN  vi' = [v1 EXCEPT !.pc = "is_irq",
                             !.onAir = o \in {"ok", "timeoutAfterSend"}]
  /\ UNCHANGED <<cmdLayer, ta>>

(* uint32_t irqR = getIRQStatus(), which is 0 when its register read failed;
   if (0 == (irqR & RX_SOF_DET_IRQ_STAT)) return EC_NO_CARD *)
is_irq ==
  /\ vi.pc = "is_irq"
  /\ \E ok \in BOOLEAN, event \in Events(vi), reply \in RepliesTo(vi) :
        LET chip1 == ChipRaises(vi, event, reply)
            irqR == IF ok THEN chip1.pend ELSE Zero32
            v == [(IF ok THEN chip1 ELSE ViFailed(chip1, "is_irq")) EXCEPT
                    !.irqR = irqR]
        IN  vi' = IF ~HasFlag(irqR, RX_SOF_DET_IRQ_STAT)
                  THEN ViIssueRet(v, EC_NO_CARD)
                  ELSE [v EXCEPT !.pc = "is_wait", !.elapsed = 0]
  /\ UNCHANGED <<cmdLayer, ta>>

(* while (!(irqR & RX_IRQ_STAT)) { irqR = getIRQStatus();
   if (millis() - startedWaiting > commandTimeout) return EC_NO_CARD; } *)
is_wait ==
  /\ vi.pc = "is_wait"
  /\ IF HasFlag(vi.irqR, RX_IRQ_STAT)
     THEN vi' = [vi EXCEPT !.pc = "is_rxStatus"]
     ELSE \E ok \in BOOLEAN, event \in Events(vi), reply \in RepliesTo(vi) :
            LET chip1 == ChipRaises(vi, event, reply)
                irqR == IF ok THEN chip1.pend ELSE Zero32
                v == [(IF ok THEN chip1 ELSE ViFailed(chip1, "is_wait")) EXCEPT
                        !.irqR = irqR]
            IN  vi' = IF vi.elapsed + 1 > CommandTimeoutTicks
                      THEN ViIssueRet(v, EC_NO_CARD)
                      ELSE [v EXCEPT !.elapsed = @ + 1]
  /\ UNCHANGED <<cmdLayer, ta>>

(* readRegister(RX_STATUS, &rxStatus); len = rxStatus & 0x1ff: the length of
   the response in the reception buffer of the chip *)
is_rxStatus ==
  /\ vi.pc = "is_rxStatus"
  /\ \E ok \in BOOLEAN :
        vi' = IF ok THEN [vi EXCEPT !.pc = "is_readData", !.len = Len(vi.last),
                                   !.card = vi.last]
              ELSE ViIssueRet(ViFailed(vi, "is_rxStatus"), ISO15693_EC_UNKNOWN_ERROR)
  /\ UNCHANGED <<cmdLayer, ta>>

(* *resultPtr = readData(len); if (0L == *resultPtr) return UNKNOWN_ERROR *)
is_readData ==
  /\ vi.pc = "is_readData"
  /\ \E ok \in BOOLEAN :
        vi' = IF ok THEN [vi EXCEPT !.pc = "is_irq2", !.resp = WriteBuf(@, vi.card)]
              ELSE ViIssueRet(ViFailed(vi, "is_readData"), ISO15693_EC_UNKNOWN_ERROR)
  /\ UNCHANGED <<cmdLayer, ta>>

(* irqStatus = getIRQStatus(); without RX_SOF_DET_IRQ_STAT:
   clearIRQStatus(TX_IRQ_STAT | IDLE_IRQ_STAT); return EC_NO_CARD *)
is_irq2 ==
  /\ vi.pc = "is_irq2"
  /\ \E ok \in BOOLEAN, cleared \in BOOLEAN :
        LET irqStatus == IF ok THEN vi.pend ELSE Zero32
            v == IF ok THEN vi ELSE ViFailed(vi, "is_irq2")
        IN  vi' = IF ~HasFlag(irqStatus, RX_SOF_DET_IRQ_STAT)
                  THEN ViIssueRet(IF cleared
                                  THEN [v EXCEPT !.pend = AndNot32(@, Or32(TX_IRQ_STAT, IDLE_IRQ_STAT))]
                                  ELSE ViFailed(v, "is_clear"),
                                  EC_NO_CARD)
                  ELSE [v EXCEPT !.pc = "is_flags", !.sofAtRead = TRUE]
  /\ UNCHANGED <<cmdLayer, ta>>

(* if (errorCode >= 0xA0) return ISO15693_EC_CUSTOM_CMD_ERROR;
   else return (ISO15693ErrorCode)errorCode *)
ResponseError(errorCode) ==
  IF errorCode >= 160 THEN ISO15693_EC_CUSTOM_CMD_ERROR ELSE errorCode

(* the error flag of the response; without it clearIRQStatus(...) and OK *)
is_flags ==
  /\ vi.pc = "is_flags"
  /\ \E cleared \in BOOLEAN :
        LET responseFlags == vi.resp[1]
        IN  vi' = IF BitSet(responseFlags, 1)
                  THEN ViIssueRet(vi, ResponseError(vi.resp[2]))
                  ELSE ViIssueRet(IF cleared
                                  THEN [vi EXCEPT !.pend = AndNot32(@,
                                           Or32(Or32(RX_SOF_DET_IRQ_STAT, IDLE_IRQ_STAT),
                                                Or32(TX_IRQ_STAT, RX_IRQ_STAT)))]
                                  ELSE ViFailed(vi, "is_clear"),
                                  ISO15693_EC_OK)
  /\ UNCHANGED <<cmdLayer, ta>>

(***************************************************************************)
(* getInventoryMultiple (137-177) and inventoryPoll (180-342).  Besides    *)
(* the variables of the source vi keeps, for every collision record, the   *)
(* round that recorded it (origin: the mask value M and mask length L of   *)
(* its request and the slot s), the record the current round consumes      *)
(* (cur), the number of polls (rounds) and of responses read (total).      *)
(* quiet says that the device reports no collision and the bus no failure  *)
(* any more; owed is the number of records outstanding when that began and *)
(* after the number of polls the while loop has started since.  Of the     *)
(* current round vi keeps the calls it made in their order (ops), the      *)
(* number of records outstanding at its start (colBefore) and recorded in  *)
(* it (recorded); of the whole call the indices of collision[] written     *)
(* (writes) and the highest offset of uid[] written (uidTop).  An origin   *)
(* carries the number r of the round that recorded it.                     *)
(* The field is either free to show anything in a slot (tags is empty), or *)
(* holds the tags of vi.tags, which answer a request as ISO 15693 says;    *)
(* uids are then the UIDs the call stored, in the order of uid[].  A UID   *)
(* is kept as the number of its low bits, nibble k being bits 4k..4k+3.    *)
(***************************************************************************)
MaxRounds == 2

MaxTagsArgs == {1, 2, 3}

(* slots in which the tags in the field answer alone, and collide *)
CardSlots == {3}

CollisionSlots == {0, 3}

NoOrigin == [M |-> 0, L |-> -1, s |-> 0, r |-> 0]

(* what the chip shows in a time slot: the collision bit (bit 18) and the
   length of RX_STATUS, and RX_IRQ_STAT of IRQ_STATUS *)
EmptySlot == [collision |-> FALSE, rxIrq |-> FALSE, len |-> 0]

CardInSlot == [collision |-> FALSE, rxIrq |-> TRUE, len |-> 10]

CollisionInSlot == [collision |-> TRUE, rxIrq |-> TRUE, len |-> 0]

(* polls counted and requests kept in the history of a call *)
MaxPolls == 7

(* fields of tags: without collision; colliding once and again under a mask;
   a collision beside a single tag; three tags in one slot; colliding in
   slot 0 without and under a mask; equal in their low 16 bits; equal in
   their low 20 bits *)
TagSets == { {33, 53}, {275, 531}, {19, 35, 69}, {23, 39, 55}, {48, 80},
             {3, 4099}, {74565, 140101}, {74565, 1123141} }

Nibble(t, k) == (t \div 16 ^ k) % 16

(* the mask of a request: its length in nibbles and its bytes, least
   significant first, as a number *)
RequestMaskLen(request) == request[3] \div 4

RequestMask(request) ==
  (IF Len(request) > 3 THEN request[4] ELSE 0)
  + (IF Len(request) > 4 THEN request[5] * 256 ELSE 0)

(* the tags that answer request in time slot slot: their UID ends in the
   mask, and its next nibble is the number of the slot *)
Answering(tags, request, slot) ==
  LET L == RequestMaskLen(request)
  IN  { t \in tags : /\ t % (16 ^ L) = RequestMask(request) % (16 ^ L)
                     /\ Nibble(t, L) = slot }

SlotReports(v) ==
  IF v.tags # {}
  THEN LET a == Answering(v.tags, v.cmd, v.slot)
       IN  { IF a = {} THEN EmptySlot
             ELSE IF Cardinality(a) = 1 THEN CardInSlot ELSE CollisionInSlot }
  ELSE
  {EmptySlot}
  \cup (IF v.slot \in CardSlots THEN {CardInSlot} ELSE {})
  \cup (IF v.slot \in CollisionSlots /\ ~v.quiet /\ v.rounds <= MaxRounds
        THEN {CollisionInSlot} ELSE {})

(* slots in which the bus may fail; the calls before the first slot are
   made with slot 0, those after the last with slot 15 *)
FaultSlots == {0, 3, 15}

(* whether a command may report failure *)
Outcomes(v) ==
  IF v.quiet \/ v.tags # {} \/ v.slot \notin FaultSlots THEN {TRUE} ELSE BOOLEAN

HostBytes16(v, be) ==
  IF be THEN <<v \div 256, v % 256>> ELSE <<v % 256, v \div 256>>

Or16(a, b) == a + b - BitAnd16(a, b, 16)

(* do { mask >>= 4; maskLen++; } while (mask > 0) *)
RECURSIVE Nibbles(_)
Nibbles(mask) == 1 + (IF mask \div 16 > 0 THEN Nibbles(mask \div 16) ELSE 0)

(* uint8_t maskLen = 0; with records outstanding, the nibbles of collision[0] *)
MaskLenOf(numCol, collision0) == IF numCol > 0 THEN Nibbles(collision0) ELSE 0

(* the first cmdLen = 3 + maskLen/2 + maskLen%2 bytes of
   inventory[7] = { flags, ISO15693_CMD_INVENTORY, maskLen*4, p[0], p[1], p[2], p[3] },
   p the byte view of collision[0] *)
inventoryPollRequest(maskLen, collision0, be) ==
  << ISO15693_REQ_FLAG_DATARATE + ISO15693_REQ_FLAG_INVENTORY,
     ISO15693_CMD_INVENTORY,
     (maskLen * 4) % 256 >>
  \o SubSeq(HostBytes16(collision0, be), 1, (maskLen \div 2) + (maskLen % 2))

(* mutant: the record is the slot alone, the mask of the round is dropped *)
CollisionRecord_NoMask(maskLen, collision0, slot) ==
  (slot * 16 ^ maskLen) % 65536

(* collision[*numCol] = collision[0] | (slot << (maskLen * 4)), or without
   a mask slot << 0, stored in a uint16_t *)
CollisionRecord(maskLen, collision0, slot) ==
  IF maskLen > 0 THEN Or16(collision0, (slot * 16 ^ maskLen) % 65536)
  ELSE slot

(* mutant: the list is not moved, the newest record falls off its end *)
ShiftDown_Stays(list, numCol) == list

(* for (i < numCol) collision[i] = collision[i+1], numCol already decremented *)
ShiftDown(list, numCol) ==
  [i \in 1..Len(list) |-> IF i <= numCol THEN list[i + 1] ELSE list[i]]

(* mutant: the consumed record stays outstanding *)
ConsumeRecord_Keeps(v) == v

(* numCol--; for (i < numCol) collision[i] = collision[i+1] *)
ConsumeRecord(v) ==
  LET numCol == (v.numCol + 255) % 256
  IN  [v EXCEPT !.numCol = numCol,
                !.collision = ShiftDown(@, numCol),
                !.origin = ShiftDown(@, numCol),
                !.writes = @ \cup 0..(numCol - 1)]

(* a call of the command layer made in time slot slot, -1 outside the slots *)
Op(name, slot) == [op |-> name, slot |-> slot]

Max(a, b) == IF a > b THEN a ELSE b

(* list[index] = value; a store behind the end of the list leaves it as it is *)
StoreAt(list, index, value) ==
  [i \in 1..Len(list) |-> IF i = index + 1 THEN value ELSE list[i]]

(* mutant: a collision is recorded whatever the number of records *)
CollisionRecorded_Unbounded(collisionBit, numCol, maxTags) == collisionBit

(* (rxStatus >> 18) & 0x01 && *numCol < maxTags *)
CollisionRecorded(collisionBit, numCol, maxTags) == collisionBit /\ numCol < maxTags

(* uint8_t startAddr = numCard * 8 + i, numCard the value of *numCard *)
UidOffset(numCard, i) == (numCard * 8 + i) % 256

(* mutant: an end-of-frame goes out after the last slot too *)
EofAfterSlot_Every(slot) == slot < 16

(* if (slot+1 < 16) *)
EofAfterSlot(slot) == slot + 1 < 16

(* entry of inventoryPoll up to the request in inventory[] *)
IpEnter(v) ==
  LET maskLen == MaskLenOf(v.numCol, v.collision[1])
  IN  [v EXCEPT !.pc = "ip_clear", !.slot = 0, !.maskLen = maskLen,
                !.cmd = inventoryPollRequest(maskLen, v.collision[1], bigEndian),
                !.cur = IF v.numCol > 0 THEN v.origin[1] ELSE NoOrigin,
                !.rounds = IF @ < MaxPolls THEN @ + 1 ELSE @, !.ops = << >>,
                !.colBefore = v.numCol, !.recorded = 0,
                !.after = IF v.quiet /\ v.rounds > 0 THEN @ + 1 ELSE @]

(* inventoryPoll returns rc to getInventoryMultiple *)
IpRet(v, rc) == [v EXCEPT !.pc = "gim_after", !.rc = rc]

getInventoryMultiple_call ==
  /\ vi.pc = "idle"
  /\ pc = "idle"
  /\ ta.pc = "idle"
  /\ \E maxTags \in MaxTagsArgs, quiet \in BOOLEAN :
        vi' = IpEnter([ViCall("getInventoryMultiple") EXCEPT
                                   !.maxTags = maxTags,
                                   !.collision = Fill(maxTags, 0),
                                   !.origin = Fill(maxTags, NoOrigin),
                                   !.quiet = quiet])
  /\ UNCHANGED <<cmdLayer, ta>>

(* getInventoryMultiple in a field of tags that answer as the standard
   says, on a bus without failures *)
inventoryOfTags_call ==
  /\ vi.pc = "idle"
  /\ pc = "idle"
  /\ ta.pc = "idle"
  /\ \E maxTags \in MaxTagsArgs, tags \in TagSets :
        vi' = IpEnter([ViCall("getInventoryMultiple") EXCEPT
                                   !.maxTags = maxTags,
                                   !.collision = Fill(maxTags, 0),
                                   !.origin = Fill(maxTags, NoOrigin),
                                   !.tags = tags])
  /\ UNCHANGED <<cmdLayer, ta>>

(* if (!clearIRQStatus(0x000FFFFF)) return ISO15693_EC_UNKNOWN_ERROR *)
ip_clear ==
  /\ vi.pc = "ip_clear"
  /\ \E ok \in Outcomes(vi) :
        LET v == [vi EXCEPT !.ops = Append(@, Op("clearIRQStatus", -1))]
        IN  vi' = IF ok THEN [v EXCEPT !.pc = "ip_send", !.pend = Zero32]
                  ELSE IpRet(ViFailed(v, "ip_clear"), ISO15693_EC_UNKNOWN_ERROR)
  /\ UNCHANGED <<cmdLayer, ta>>

(* if (!sendData(inventory, cmdLen, 0)) return ISO15693_EC_UNKNOWN_ERROR *)
ip_send ==
  /\ vi.pc = "ip_send"
  /\ \E ok \in Outcomes(vi) :
        LET v == [vi EXCEPT !.ops = Append(@, Op("sendData", -1))]
        IN  vi' = IF ok THEN [v EXCEPT !.pc = "ip_slot",
                                      !.sent = IF Len(@) < MaxPolls
                                               THEN Append(@, vi.cmd) ELSE @]
                  ELSE IpRet(ViFailed(v, "ip_send"), ISO15693_EC_UNKNOWN_ERROR)
  /\ UNCHANGED <<cmdLayer, ta>>

(* one time slot: getIRQStatus(), readRegister(RX_STATUS), then a collision
   is recorded, or the slot is empty, or the response is read with
   readData(len+1) and counted *)
ip_slot ==
  /\ vi.pc = "ip_slot"
  /\ \E irqOk \in Outcomes(vi), rxOk \in Outcomes(vi), readOk \in Outcomes(vi),
        r \in SlotReports(vi) :
        LET rxIrq == irqOk /\ r.rxIrq
            v0 == [(IF irqOk THEN vi ELSE ViFailed(vi, "ip_irq")) EXCEPT
                     !.ops = @ \o <<Op("getIRQStatus", vi.slot),
                                    Op("readRegister", vi.slot)>>,
                     !.pend = IF r.rxIrq
                              THEN Or32(@, Or32(RX_SOF_DET_IRQ_STAT, RX_IRQ_STAT))
                              ELSE @,
                     !.last = IF r.rxIrq /\ ~r.collision
                              THEN <<0, 0>> \o TagUid ELSE @]
            v1 == [v0 EXCEPT !.ops = Append(@, Op("readData", vi.slot))]
        IN  vi' =
              IF ~rxOk
              THEN IpRet(ViFailed(v0, "ip_rxStatus"), ISO15693_EC_UNKNOWN_ERROR)
              ELSE IF CollisionRecorded(r.collision, vi.numCol, vi.maxTags)
              THEN [v0 EXCEPT
                      !.pc = "ip_next",
                      !.collision = StoreAt(@, vi.numCol,
                          CollisionRecord(vi.maskLen, vi.collision[1], vi.slot)),
                      !.origin = StoreAt(@, vi.numCol,
                          [M |-> IF vi.numCol > 0 THEN vi.collision[1] ELSE 0,
                           L |-> vi.maskLen, s |-> vi.slot, r |-> vi.rounds]),
                      !.writes = @ \cup {vi.numCol},
                      !.recorded = @ + 1,
                      !.numCol = (@ + 1) % 256]
              ELSE IF ~rxIrq /\ r.len = 0
              THEN [v0 EXCEPT !.pc = "ip_next"]
              ELSE IF ~readOk
              THEN IpRet(ViFailed(v1, "ip_readData"), ISO15693_EC_UNKNOWN_ERROR)
              ELSE [v1 EXCEPT !.pc = "ip_next",
                              !.uids = IF vi.tags = {} THEN @
                                       ELSE Append(@, IF r.collision THEN -1
                                                      ELSE CHOOSE t \in Answering(vi.tags, vi.cmd, vi.slot) : TRUE),
                              !.uidTop = Max(@, UidOffset(vi.numCard, 7)),
                              !.numCard = (@ + 1) % 256,
                              !.total = @ + 1]
  /\ UNCHANGED <<cmdLayer, ta>>

(* if (slot+1 < 16): writeRegisterWithAndMask(TX_CONFIG, 0xFFFFFB3F),
   clearIRQStatus(0x000FFFFF), sendData(inventory, 0, 0), each ending the
   poll with ISO15693_EC_UNKNOWN_ERROR when it fails; then the next slot *)
ip_next ==
  /\ vi.pc = "ip_next"
  /\ \E f \in {"none"} \cup
                (IF Outcomes(vi) = {TRUE} \/ ~EofAfterSlot(vi.slot) THEN {}
                 ELSE {"ip_txConfig", "ip_clear2", "ip_eof"}) :
        LET eof == <<Op("writeRegisterWithAndMask", vi.slot),
                     Op("clearIRQStatus", vi.slot), Op("sendData", vi.slot)>>
            done == CASE ~EofAfterSlot(vi.slot) -> 0
                      [] f = "ip_txConfig" -> 1
                      [] f = "ip_clear2" -> 2
                      [] OTHER -> 3
            v == [vi EXCEPT !.ops = @ \o SubSeq(eof, 1, done),
                            !.pend = IF done = 3 THEN Zero32 ELSE @]
        IN  vi' = IF f # "none"
                  THEN IpRet(ViFailed(v, f), ISO15693_EC_UNKNOWN_ERROR)
                  ELSE IF vi.slot + 1 < 16
                  THEN [v EXCEPT !.pc = "ip_slot", !.slot = @ + 1]
                  ELSE [v EXCEPT !.pc = "ip_rfOff"]
  /\ UNCHANGED <<cmdLayer, ta>>

(* if (!setRF_off()) return ISO15693_EC_UNKNOWN_ERROR *)
ip_rfOff ==
  /\ vi.pc = "ip_rfOff"
  /\ \E ok \in Outcomes(vi) :
        LET v == [vi EXCEPT !.ops = Append(@, Op("setRF_off", -1))]
        IN  vi' = IF ok THEN [v EXCEPT !.pc = "ip_setupRF"]
                  ELSE IpRet(ViFailed(v, "ip_rfOff"), ISO15693_EC_UNKNOWN_ERROR)
  /\ UNCHANGED <<cmdLayer, ta>>

(* if (!setupRF()) return ISO15693_EC_UNKNOWN_ERROR; return ISO15693_EC_OK.
   setupRF (956-974) is loadRFConfig(0x0d, 0x8d), setRF_on(), each ending it
   with false when it fails, and the Idle and Transceive writes to
   SYSTEM_CONFIG, whose results are not looked at *)
ip_setupRF ==
  /\ vi.pc = "ip_setupRF"
  /\ \E f \in {"none"} \cup (IF Outcomes(vi) = {TRUE} THEN {}
                              ELSE {"loadRFConfig", "setRF_on"}) :
        LET setup == <<Op("loadRFConfig", -1), Op("setRF_on", -1),
                       Op("writeRegisterWithAndMask", -1),
                       Op("writeRegisterWithOrMask", -1)>>
            v == [vi EXCEPT !.ops = @ \o SubSeq(setup, 1,
                                CASE f = "loadRFConfig" -> 1
                                  [] f = "setRF_on" -> 2
                                  [] OTHER -> 4)]
        IN  vi' = IF f = "none" THEN IpRet(v, ISO15693_EC_OK)
                  ELSE IpRet(ViFailed(v, "ip_setupRF"), ISO15693_EC_UNKNOWN_ERROR)
  /\ UNCHANGED <<cmdLayer, ta>>

(* after a poll: a failed poll ends the call with ISO15693_EC_UNKNOWN_ERROR;
   a poll of the while loop is followed by the removal of collision[0];
   then while (numCol) polls again, and without records the call returns
   ISO15693_EC_OK.  From here on the device may stay quiet. *)
gim_after ==
  /\ vi.pc = "gim_after"
  /\ \E quiet \in (IF vi.tags # {} THEN {FALSE} ELSE BOOLEAN) :
        LET v1 == IF vi.rounds > 1 THEN ConsumeRecord(vi) ELSE vi
            v2 == IF quiet /\ ~vi.quiet
                  THEN [v1 EXCEPT !.quiet = TRUE, !.owed = v1.numCol]
                  ELSE v1
        IN  vi' = IF vi.rc # ISO15693_EC_OK
                  THEN ViRet(vi, ISO15693_EC_UNKNOWN_ERROR)
                  ELSE IF v2.numCol # 0 THEN IpEnter(v2)
                  ELSE ViRet(v2, ISO15693_EC_OK)
  /\ UNCHANGED <<cmdLayer, ta>>

(* the caller resets the chip (reset(), setupRF()) before its next call *)
viContinues ==
  /\ vi.pc = "done"
  /\ vi' = NoVi
  /\ UNCHANGED <<cmdLayer, ta>>

(* the caller goes on to its next call with the chip as it is *)
viNext ==
  /\ vi.pc = "done"
  /\ vi' = ViCall("none")
  /\ UNCHANGED <<cmdLayer, ta>>

(***************************************************************************)
(* The environment: the chip drives BUSY at any time, and the clock        *)
(* advances.  The elapsed times are only read inside the wait loops and    *)
(* saturate just above their timeout.                                      *)
(***************************************************************************)
BusyChange ==
  /\ tpc \in WaitStates \/ pc = "idle"
  /\ busy' = IF busy = LOW THEN HIGH ELSE LOW
  /\ UNCHANGED <<bigEndian, vi, ta, chip, nss, rstLine, waited, opWaited, tpc, tframe, tdst, trlen,
                 tres, tlog, rx, mem, pc, call, ret, cmds, loc, rstLog>>

InBusyWait == tpc \in WaitStates /\ waited <= CommandTimeoutTicks

InPollLoop ==
  \/ pc = "setRF_poll" /\ opWaited <= SetRfTimeoutTicks
  \/ pc = "reset_poll" /\ opWaited <= CommandTimeoutTicks

Tick ==
  /\ InBusyWait \/ InPollLoop
  /\ waited' = IF InBusyWait THEN waited + 1 ELSE waited
  /\ opWaited' = IF InPollLoop THEN opWaited + 1 ELSE opWaited
  /\ UNCHANGED <<bigEndian, vi, ta, chip, nss, busy, rstLine, tpc, tframe, tdst, trlen,
                 tres, tlog, rx, mem, pc, call, ret, cmds, loc, rstLog>>

(***************************************************************************)
(* The initial state: after begin(), NSS and RST are high, no buffer has   *)
(* been allocated.  The library's targets are little-endian.               *)
(***************************************************************************)
InitDriver ==
  /\ nss = HIGH
  /\ rstLine = HIGH
  /\ busy \in {LOW, HIGH}
  /\ waited = 0
  /\ opWaited = 0
  /\ tpc = "idle"
  /\ tframe = << >>
  /\ tdst = "null"
  /\ trlen = 0
  /\ tres = FALSE
  /\ tlog = << >>
  /\ rx = << >>
  /\ mem = [static16 |-> Fill(16, 0), dyn508 |-> << >>, mallocs |-> 0,
            caller |-> Fill(CallerBufSize, 238), val |-> Fill(4, 0)]
  /\ pc = "idle"
  /\ call = NoCall
  /\ ret = NoRet
  /\ cmds = << >>
  /\ loc = NoLoc
  /\ rstLog = << >>
  /\ ta = NoTa
  /\ vi = NoVi

Init == InitDriver /\ bigEndian = FALSE /\ chip = BusyChip

Next ==
  \/ callerContinues
  \/ BusyChange
  \/ Tick
  \/ Transport
  \/ writeRegister_call \/ writeRegister_ret
  \/ readEEprom_call \/ readEEprom_ret
  \/ sendData_call \/ sendData_and \/ sendData_or \/ sendData_state \/ sendData_send
  \/ readData_call \/ readData_ret
  \/ setRF_call \/ setRF_cmd \/ setRF_poll \/ setRF_clear
  \/ reset_call \/ reset_high \/ reset_poll \/ reset_retry
  \/ getIRQStatus_call \/ getIRQStatus_ret
  \/ clearIRQStatus_call \/ clearIRQStatus_ret

Spec == Init /\ [][Next]_vars

(***************************************************************************)
(* The register writes on a host of either byte order.                     *)
(***************************************************************************)
InitHost == InitDriver /\ bigEndian \in BOOLEAN /\ chip = BusyChip

NextHost ==
  \/ callerContinues
  \/ BusyChange
  \/ Tick
  \/ Transport
  \/ writeRegister_call \/ writeRegister_ret

SpecHost == InitHost /\ [][NextHost]_vars

(***************************************************************************)
(* The RF field switches and reset with their polling loops, under the     *)
(* fairness the hardware gives: the millisecond clock keeps advancing and  *)
(* the single-threaded driver keeps executing its next statement.          *)
(***************************************************************************)
Driver ==
  \/ Transport
  \/ setRF_cmd \/ setRF_poll \/ setRF_clear
  \/ reset_high \/ reset_poll \/ reset_retry

NextPoll ==
  \/ callerContinues
  \/ BusyChange
  \/ Tick
  \/ Transport
  \/ setRF_call \/ setRF_cmd \/ setRF_poll \/ setRF_clear
  \/ reset_call \/ reset_high \/ reset_poll \/ reset_retry

SpecPoll == Init /\ [][NextPoll]_vars /\ WF_vars(Tick) /\ WF_vars(Driver)

(***************************************************************************)
(* The interrupt status calls on a quiet chip.                             *)
(***************************************************************************)
InitIrq == InitDriver /\ bigEndian = FALSE /\ chip \in QuietChips

NextIrq ==
  \/ callerContinues
  \/ BusyChange
  \/ Tick
  \/ Transport
  \/ getIRQStatus_call \/ getIRQStatus_ret
  \/ clearIRQStatus_call \/ clearIRQStatus_ret

SpecIrq == InitIrq /\ [][NextIrq]_vars

(***************************************************************************)
(* The same calls while the millisecond clock keeps advancing and the      *)
(* driver keeps executing; the BUSY line changes, or stays, as it likes.   *)
(***************************************************************************)
SpecTransceive ==
  InitIrq /\ [][NextIrq]_vars /\ WF_vars(Tick) /\ WF_vars(Transport)

(***************************************************************************)
(* The ISO 14443 layer.                                                    *)
(***************************************************************************)
NextTypeA ==
  \/ taContinues
  \/ activateTypeA_call \/ readCardSerial_call
  \/ ta_loadRFConfig \/ ta_setRF_on \/ ta_cryptoOff \/ ta_rxCrcOff \/ ta_txCrcOff
  \/ ta_idleCmd \/ ta_transceiveCmd \/ ta_state \/ ta_clearIRQ
  \/ ta_reqa \/ ta_atqa \/ ta_wait \/ ta_clearIRQ2
  \/ ta_anticoll1 \/ ta_rxBytes \/ ta_readUid1 \/ ta_rxCrcOn1 \/ ta_txCrcOn1
  \/ ta_select1 \/ ta_sak1
  \/ ta_rxCrcOff2 \/ ta_txCrcOff2 \/ ta_anticoll2 \/ ta_readUid2
  \/ ta_rxCrcOn2 \/ ta_txCrcOn2 \/ ta_select2 \/ ta_sak2
  \/ readCardSerial_filter

SpecTypeA == Init /\ [][NextTypeA]_vars

(***************************************************************************)
(* The ISO 15693 layer.  The single-threaded driver keeps executing.       *)
(***************************************************************************)
NextVicinity ==
  \/ viContinues
  \/ getInventory_call \/ getInventory_ret
  \/ readMultipleBlock_call \/ readMultipleBlock_ret
  \/ getSystemInfo_call \/ getSystemInfo_ret
  \/ privacyMode_call \/ getRandomNumber_ret \/ privacyMode_ret
  \/ is_send \/ is_irq \/ is_wait \/ is_rxStatus \/ is_readData \/ is_irq2
  \/ is_flags
  \/ getInventoryMultiple_call \/ gim_after
  \/ ip_clear \/ ip_send \/ ip_slot \/ ip_next \/ ip_rfOff \/ ip_setupRF

SpecVicinity == Init /\ [][NextVicinity]_vars /\ WF_vars(NextVicinity)

(***************************************************************************)
(* getInventoryMultiple in fields of tags that answer as the standard      *)
(* says.  The single-threaded driver keeps executing.                      *)
(***************************************************************************)
NextTags ==
  \/ viContinues
  \/ inventoryOfTags_call \/ gim_after
  \/ ip_clear \/ ip_send \/ ip_slot \/ ip_next \/ ip_rfOff \/ ip_setupRF

SpecTags == Init /\ [][NextTags]_vars /\ WF_vars(NextTags)

(***************************************************************************)
(* A sequence of getInventory calls on a chip that is not reset between    *)
(* them.                                                                   *)
(***************************************************************************)
NextStale ==
  \/ viNext
  \/ getInventory_call \/ getInventory_ret
  \/ is_send \/ is_irq \/ is_wait \/ is_rxStatus \/ is_readData \/ is_irq2
  \/ is_flags

SpecStale == Init /\ [][NextStale]_vars

(***************************************************************************)
(* Properties of the bus transport.                                        *)
(***************************************************************************)
EventNames(log) == [i \in 1..Len(log) |-> log[i].e]

(* the level of NSS just before event i of the call (NSS is high on entry) *)
LevelBefore(log, i) == IF i = 1 THEN HIGH ELSE log[i - 1].nss

Deasserts(log, i) == LevelBefore(log, i) = LOW /\ log[i].nss = HIGH

CountOf(log, e, upto) == Cardinality({j \in 1..upto : log[j].e = e})

BusOrder(log) ==
  \A i \in 1..Len(log) :
    /\ log[i].e = "nssLow" => i > 1 /\ log[i - 1].e = "busyLow"
    /\ log[i].e \in {"send", "recv"} => LevelBefore(log, i) = LOW /\ log[i].nss = LOW
    /\ log[i].e = "send" => CountOf(log, "nssLow", i) = 1
    /\ log[i].e = "recv" =>
         /\ CountOf(log, "nssLow", i) = 2
         /\ CountOf(log, "busyLow", i) = 2
         /\ CountOf(log, "busyHigh", i) = 1
         /\ CountOf(log, "send", i) = 1

(* C1 as stated: in every call of transceiveCommand BUSY is seen low
   before NSS is asserted, bytes are transferred only while NSS is asserted,
   NSS is de-asserted only after BUSY was seen high, and the receive phase
   starts only after BUSY was seen low again. *)
C1_DeassertOnlyAfterBusyHigh ==
  /\ BusOrder(tlog)
  /\ \A i \in 1..Len(tlog) : Deasserts(tlog, i) => i > 1 /\ tlog[i - 1].e = "busyHigh"

(* C1 amended: the same order, except that NSS is also de-asserted, without
   BUSY having been seen high, when the wait for BUSY high times out. *)
C1_BusOrder ==
  /\ BusOrder(tlog)
  /\ \A i \in 1..Len(tlog) :
       Deasserts(tlog, i) =>
         \/ i > 1 /\ tlog[i - 1].e = "busyHigh"
         \/ tlog[i].e = "timeout" /\ i > 1 /\ tlog[i - 1].e \in {"send", "recv"}
  /\ (nss = LOW => tpc \in {"send2", "send3", "send4", "recv2", "recv3", "recv4"})

(* a complete exchange with a response, and an abort while NSS is asserted *)
C1_Witness ==
  /\ tpc = "ret"
  /\ tres
  /\ EventNames(tlog) = <<"busyLow", "nssLow", "send", "busyHigh", "nssHigh", "busyLow",
                          "nssLow", "recv", "busyHigh", "nssHigh", "busyLow">>

(* C2: a busy-line wait that times out ends the call at once with failure
   and NSS high, and no call transfers its send frame or its response more
   than once. *)
C2_TimeoutAborts ==
  /\ \A i \in 1..Len(tlog) :
       tlog[i].e = "timeout" =>
         /\ i = Len(tlog)
         /\ tpc \in {"ret", "idle"}
         /\ ~tres
         /\ tlog[i].nss = HIGH
  /\ (tpc = "ret" /\ ~tres) => nss = HIGH /\ tlog # << >> /\ tlog[Len(tlog)].e = "timeout"
  /\ (tpc = "ret" /\ tres) => \A i \in 1..Len(tlog) : tlog[i].e # "timeout"
  /\ CountOf(tlog, "send", Len(tlog)) <= 1
  /\ CountOf(tlog, "recv", Len(tlog)) <= 1

(* a timeout in the receive phase: the call has failed with NSS high *)
C2_Witness ==
  /\ tpc = "ret"
  /\ ~tres
  /\ nss = HIGH
  /\ EventNames(tlog) = <<"busyLow", "nssLow", "send", "busyHigh", "nssHigh", "busyLow",
                          "nssLow", "recv", "timeout">>

(***************************************************************************)
(* Properties of the command/register layer.                               *)
(***************************************************************************)
WriteOpcode(kind) ==
  CASE kind = "writeRegister" -> 0
    [] kind = "writeRegisterWithOrMask" -> 1
    [] kind = "writeRegisterWithAndMask" -> 2

(* C3: the frame of writeRegister, writeRegisterWithOrMask and
   writeRegisterWithAndMask is (opcode, register, value bits 0-7, 8-15,
   16-23, 24-31), on a host of either byte order. *)
C3_LsbFirst ==
  (call.name \in WriteKinds /\ tframe # << >>) =>
     tframe = << WriteOpcode(call.name), call.reg,
                 call.value.lo % 256, call.value.lo \div 256,
                 call.value.hi % 256, call.value.hi \div 256 >>

(* C4: readEEprom with addr > 254 or addr + len > 254 returns false, never
   enters the transport and leaves the caller's buffer as it was. *)
C4_RejectsOutOfRange ==
  (call.name = "readEEprom" /\ (call.addr > 254 \/ call.addr + call.len > 254)) =>
     /\ pc = "done"
     /\ ~ret.ok
     /\ tpc = "idle"
     /\ tlog = << >>
     /\ cmds = << >>
     /\ tframe = << >>
     /\ nss = HIGH
     /\ mem.caller = Fill(CallerBufSize, 238)

(* a read that ends one byte past address 254 has been rejected *)
C4_Witness ==
  /\ call.name = "readEEprom"
  /\ call.addr = 1
  /\ call.len = 254
  /\ pc = "done"
  /\ ~ret.ok

(* C5: readEEprom does not reject a read of len >= 1 bytes whose last byte
   address addr + len - 1 is at most 254; it issues READ_EEPROM for it. *)
C5_AcceptsWholeRange ==
  (call.name = "readEEprom" /\ call.len >= 1 /\ call.addr + call.len - 1 <= 254) =>
     tframe = <<PN5180_READ_EEPROM, call.addr, call.len>>

(* C6: sendData with len > 260 returns false without any bus activity. *)
C6_RejectsLongData ==
  (call.name = "sendData" /\ call.len > 260) =>
     /\ pc = "done"
     /\ ~ret.ok
     /\ tpc = "idle"
     /\ tlog = << >>
     /\ cmds = << >>
     /\ tframe = << >>
     /\ nss = HIGH

C6_Witness ==
  /\ call.name = "sendData"
  /\ call.len = 261
  /\ pc = "done"
  /\ ~ret.ok

(* the four frames of a sendData call, as they appear on the bus of a
   little-endian host *)
SendDataFrames(len, validBits) ==
  << <<2, 0, 248, 255, 255, 255>>,
     <<1, 0, 3, 0, 0, 0>>,
     <<4, 29>>,
     <<9, validBits>> \o DataReply(SendSeed, len) >>

IsPrefix(a, b) == Len(a) <= Len(b) /\ \A i \in 1..Len(a) : a[i] = b[i]

(* C7: sendData issues, in this order, the AND-mask write 0xFFFFFFF8 and
   the OR-mask write 0x00000003 of SYSTEM_CONFIG, the read of the
   transceiver state and the SEND_DATA frame; SEND_DATA is issued only
   when every earlier exchange succeeded and the state read in this call
   was WaitTransmit, and otherwise the call returns false. *)
C7_SendDataOrder ==
  (call.name = "sendData" /\ call.len <= 260) =>
     /\ IsPrefix(cmds, SendDataFrames(call.len, call.validBits))
     /\ (pc = "sendData_send" \/ Len(cmds) = 4) =>
          /\ Len(rx) = 4
          /\ rx[4] % 8 = PN5180_TS_WaitTransmit
          /\ pc = "sendData_send" => ~loc.failed
     /\ (pc = "done" /\ ret.ok) => Len(cmds) = 4 /\ ~loc.failed
     /\ (pc = "done" /\ (loc.failed \/ Len(rx) # 4 \/ rx[4] % 8 # PN5180_TS_WaitTransmit)) =>
          ~ret.ok
     /\ (pc = "done" /\ Len(cmds) < 4) => ~ret.ok

(* the SEND_DATA frame of a 260-byte payload has gone out and the call has succeeded *)
C7_Witness ==
  /\ call.name = "sendData"
  /\ call.len = 260
  /\ pc = "done"
  /\ ret.ok
  /\ Len(cmds) = 4

(* C8: readData returns null without bus activity for len < 0 or
   len > 508; a non-null result is the 16-byte buffer for len <= 16 and the
   508-byte buffer otherwise, and its first len bytes are the bytes the
   transport received. *)
C8_ReadData ==
  (call.name = "readData" /\ pc = "done") =>
     /\ (call.len < 0 \/ call.len > 508) =>
          /\ ret.buf = "null"
          /\ tlog = << >>
          /\ cmds = << >>
          /\ tframe = << >>
          /\ nss = HIGH
     /\ ret.buf # "null" =>
          /\ tres
          /\ cmds = << <<PN5180_READ_DATA, 0>> >>
          /\ (0 <= call.len /\ call.len <= 16) =>
               ret.buf = "static16" /\ Len(mem.static16) = 16
          /\ (17 <= call.len /\ call.len <= 508) =>
               ret.buf = "dyn508" /\ Len(mem.dyn508) = 508
          /\ Len(rx) = call.len
          /\ \A i \in 1..call.len : mem[ret.buf][i] = rx[i]

C8_Witness ==
  /\ call.name = "readData"
  /\ pc = "done"
  /\ call.len = 508
  /\ ret.buf = "dyn508"
  /\ rx = DataReply(160, 508)

(***************************************************************************)
(* Properties of the polling calls setRF_on, setRF_off and reset.          *)
(***************************************************************************)
IsSetRF == call.name \in {"setRF_on", "setRF_off"}

(* the flag of the call is set in the IRQ_STATUS reply that was read last;
   on the wire TX_RFOFF is bit 0 and TX_RFON bit 1 of the second byte *)
FlagInReply ==
  /\ Len(rx) = 4
  /\ IF call.name = "setRF_on" THEN (rx[2] \div 2) % 2 = 1 ELSE rx[2] % 2 = 1

SetRFFrames ==
  IF call.name = "setRF_on"
  THEN << <<22, 0>>, <<4, 2>>, <<0, 3, 0, 2, 0, 0>> >>
  ELSE << <<23, 0>>, <<4, 2>>, <<0, 3, 0, 1, 0, 0>> >>

C9_Safety ==
  IsSetRF =>
     /\ IsPrefix(cmds, SetRFFrames)
     /\ pc = "setRF_clear" => FlagInReply /\ ~loc.failed
     /\ (pc = "done" /\ ret.ok) =>
          /\ ~loc.failed
          /\ tres
          /\ FlagInReply
          /\ cmds = SetRFFrames
     /\ (pc = "done" /\ (loc.failed \/ ~FlagInReply)) => ~ret.ok
     /\ (pc = "done" /\ ~ret.ok) => loc.failed \/ loc.timedOut
     /\ loc.timedOut =>
          /\ pc = "done"
          /\ ~ret.ok
          /\ ~FlagInReply
          /\ opWaited > SetRfTimeoutTicks

(* C9: setRF_on (setRF_off) returns true only if the RF_ON (RF_OFF)
   exchange succeeded, TX_RFON (TX_RFOFF) was then read set in IRQ_STATUS
   and the clear of exactly that flag was issued and succeeded; it returns
   false when a read fails or when the flag is still clear after the
   timeout; and every call returns. *)
C9_SetRF == []C9_Safety /\ ((IsSetRF /\ pc # "done") ~> (pc = "done"))

(* the field is on: the flag was read and cleared *)
C9_Witness ==
  /\ call.name = "setRF_off"
  /\ pc = "done"
  /\ ret.ok
  /\ cmds = SetRFFrames

IsReset == call.name = "reset"

C10_Safety ==
  IsReset =>
     /\ Len(rstLog) <= 2
     /\ (rstLine = LOW) = (pc \in {"reset_low", "reset_retry"})
     /\ pc # "reset_low" => Len(rstLog) >= 1 /\ rstLog[1] = Pulse(1, 5)
     /\ IsPrefix(cmds, << <<4, 2>> >>)
     /\ pc = "reset_retry" => loc.timedOut /\ Len(rstLog) = 1
     /\ Len(rstLog) = 2 =>
          /\ rstLog[2] = Pulse(10, 50)
          /\ pc = "done"
          /\ tpc = "idle"
     /\ loc.timedOut =>
          /\ ~loc.flagSeen
          /\ opWaited > CommandTimeoutTicks
     /\ pc = "done" =>
          \/ /\ Len(rstLog) = 1
             /\ loc.flagSeen
             /\ tres
             /\ Len(rx) = 4
             /\ (rx[1] \div 4) % 2 = 1
          \/ /\ Len(rstLog) = 2
             /\ loc.timedOut

(* C10: reset pulses the reset line once and polls IRQ_STATUS for the idle
   flag; when the poll times out it pulses once more (10 ms low, 50 ms
   high) and returns without polling again; the line is pulsed at most
   twice and every call returns. *)
C10_Reset == []C10_Safety /\ ((IsReset /\ pc # "done") ~> (pc = "done"))

(* the chip never showed the idle flag: two pulses, then the return *)
C10_Witness ==
  /\ IsReset
  /\ pc = "done"
  /\ rstLog = <<Pulse(1, 5), Pulse(10, 50)>>
  /\ loc.failed

(***************************************************************************)
(* Properties of the interrupt status calls, on a quiet chip.              *)
(***************************************************************************)
StartsExchange == tpc' = "send0" /\ tpc # "send0"

IrqInv ==
  /\ (call.name = "getIRQStatus") =>
        /\ cmds \in { << >>, <<readRegisterFrame(IRQ_STATUS)>> }
        /\ chip.irq = chip.atEntry
        /\ (pc = "done" /\ ret.ok) =>
              /\ cmds = <<readRegisterFrame(IRQ_STATUS)>>
              /\ loc.irqStatus = chip.irq
  /\ (call.name = "clearIRQStatus") =>
        /\ cmds \in { << >>, <<writeRegisterFrame(IRQ_CLEAR, call.value)>> }
        /\ chip.irq = IF cmds = << >> THEN chip.atEntry
                      ELSE AndNot32(chip.atEntry, call.value)
        /\ (pc = "done" /\ ret.ok) => cmds # << >>

(* C11: getIRQStatus starts one exchange, the read of IRQ_STATUS, and leaves
   the pending flags as they were; clearIRQStatus(mask) starts one exchange,
   the write of mask to IRQ_CLEAR, and the pending flags change only by that
   write, which clears the flags of mask. *)
C11_ReadDoesNotClear ==
  /\ []IrqInv
  /\ [][(StartsExchange /\ call'.name \in {"getIRQStatus", "clearIRQStatus"})
           => pc = "idle"]_vars
  /\ [][(chip.irq' # chip.irq)
           => (call.name = "clearIRQStatus" /\ tpc = "send2")]_vars

(* a successful read on a chip with two flags pending *)
C11_Witness ==
  /\ call.name = "getIRQStatus"
  /\ pc = "done"
  /\ ret.ok
  /\ loc.irqStatus = U32(0, 516)
  /\ chip.irq = U32(0, 516)

(* C12: a second clearIRQStatus(mask) right after a first one that reached
   the chip leaves the interrupt status as the first one left it: the flags
   of mask cleared, the others as they were before the first call. *)
C12_ClearTwice ==
  (/\ pc = "done"
   /\ call.name = "clearIRQStatus"
   /\ chip.prev.name = "clearIRQStatus"
   /\ chip.prev.mask = call.value
   /\ chip.prev.sent) =>
     /\ chip.irq = chip.prev.irq
     /\ chip.irq = AndNot32(chip.prev.before, call.value)

(* two successful clears of the idle flag on a chip with idle and field-on
   pending *)
C12_Witness ==
  /\ pc = "done"
  /\ call.name = "clearIRQStatus"
  /\ call.value = U32(0, 4)
  /\ ret.ok
  /\ chip.prev.name = "clearIRQStatus"
  /\ chip.prev.mask = U32(0, 4)
  /\ chip.prev.sent
  /\ chip.prev.before = U32(0, 516)
  /\ chip.irq = U32(0, 512)

(***************************************************************************)
(* Properties of the ISO 14443 layer.  activateTypeA has returned when     *)
(* ta.pc is "done", or "filter" inside readCardSerial; ta.uidLength is the *)
(* value it returned.                                                      *)
(***************************************************************************)
Activated == ta.pc \in {"done", "filter"}

(* the SAK read after Select-1 *)
Sak1 == ta.reads[3][1]

Mask04(b) == (b \div 4) % 2 = 1

(* C13: all commands succeed, the card answers, anticollision-1 gives
   (u0,u1,u2,u3,bcc) and the SAK after Select-1 has bit 0x04 clear:
   activateTypeA returns 4 with (u0,u1,u2,u3) at buffer[3..6] and sends no
   cascade-level-2 (0x95) command. *)
C13_SingleSizeUid ==
  (Activated /\ ta.failed = {} /\ Len(ta.reads) >= 3 /\ ~Mask04(Sak1)) =>
     /\ ta.uidLength = 4
     /\ SubSeq(ta.buffer, 4, 7) = SubSeq(ta.reads[2], 1, 4)
     /\ \A i \in 1..Len(ta.cards) : ta.cards[i][1] # 149

C13_Witness ==
  /\ ta.name = "activateTypeA"
  /\ ta.pc = "done"
  /\ ta.failed = {}
  /\ ta.reads = << <<68, 0>>, <<4, 18, 52, 86, 116>>, <<8>> >>
  /\ ta.uidLength = 4
  /\ SubSeq(ta.buffer, 4, 7) = <<4, 18, 52, 86>>

(* C14: all commands succeed, the SAK after Select-1 has bit 0x04 set,
   anticollision-1 gave (0x88,a,b,c,bcc1) and anticollision-2 (d,e,f,g,bcc2):
   activateTypeA returns 7 with (a,b,c,d,e,f,g) at buffer[3..9], and the
   Select-2 frame is (0x95,0x70,d,e,f,g,bcc2). *)
C14_DoubleSizeUid ==
  (/\ Activated
   /\ ta.failed = {}
   /\ Len(ta.reads) >= 3
   /\ Mask04(Sak1)
   /\ ta.reads[2][1] = 136) =>
     /\ ta.uidLength = 7
     /\ Len(ta.reads) = 5
     /\ SubSeq(ta.buffer, 4, 10) = SubSeq(ta.reads[2], 2, 4) \o SubSeq(ta.reads[4], 1, 4)
     /\ Len(ta.cards) = 5
     /\ ta.cards[5] = <<149, 112>> \o ta.reads[4]

C14_Witness ==
  /\ ta.name = "activateTypeA"
  /\ ta.pc = "done"
  /\ ta.failed = {}
  /\ ta.reads = << <<68, 0>>, <<136, 17, 34, 51, 136>>, <<4>>,
                   <<68, 85, 102, 119, 0>>, <<0>> >>
  /\ ta.uidLength = 7
  /\ SubSeq(ta.buffer, 4, 10) = <<17, 34, 51, 68, 85, 102, 119>>
  /\ ta.cards[5] = <<149, 112, 68, 85, 102, 119, 0>>

(* C15: after an activateTypeA that returns a positive length, buffer[0..1]
   is the ATQA the card sent and buffer[2] the last SAK read; stated for the
   calls in which every command succeeded. *)
C15_AtqaSakKept ==
  (Activated /\ ta.uidLength > 0 /\ ta.failed = {}) =>
     /\ SubSeq(ta.buffer, 1, 2) = ta.reads[1]
     /\ ta.buffer[3] = ta.reads[Len(ta.reads)][1]

(* C16: every command succeeds and no card answers the REQA/WUPA that was
   sent: activateTypeA returns 0. *)
C16_NoCardIsZero ==
  (/\ Activated
   /\ ~ta.card
   /\ ta.failed = {}
   /\ Len(ta.cards) >= 1) =>
     ta.uidLength = 0

(* C17: readCardSerial returns 0 when the ATQA the card sent during an
   activation that came back with a UID is 0xFF 0xFF; stated for the calls
   in which every command succeeded. *)
C17_RejectsAtqaFFFF ==
  (/\ ta.name = "readCardSerial"
   /\ ta.pc = "done"
   /\ ta.uidLength > 0
   /\ ta.failed = {}
   /\ ta.reads[1] = <<255, 255>>) =>
     ta.ret = 0

(* the UID of an activation result of length n, and its byte at 0-based
   index i, as the 10-byte result holds them from offset 3 on *)
UidByte(i) == ta.buffer[3 + i + 1]

(* C18: for an activation result of length 4 or 7 readCardSerial returns 0
   if the first UID byte is 0x00 or 0xFF, if a 4-byte UID starts with 0x88,
   or if a 7-byte UID has 0x88 at index 3 or its last 4 bytes all 0x00 or all
   0xFF; a positive result n is the activation length, and exactly n UID
   bytes are in the caller's buffer. *)
C18_ValidityFilter ==
  (ta.name = "readCardSerial" /\ ta.pc = "done" /\ ta.uidLength \in {4, 7}) =>
     /\ (\/ UidByte(0) \in {0, 255}
         \/ ta.uidLength = 4 /\ UidByte(0) = 136
         \/ /\ ta.uidLength = 7
            /\ \/ UidByte(3) = 136
               \/ \A i \in 3..6 : UidByte(i) = 0
               \/ \A i \in 3..6 : UidByte(i) = 255) => ta.ret = 0
     /\ ta.ret > 0 =>
          /\ ta.ret = ta.uidLength
          /\ \A i \in 0..9 :
               ta.uid[i + 1] = IF i < ta.ret THEN UidByte(i) ELSE 238

(* a 7-byte UID is passed on, and one with the cascade tag at index 3 is
   rejected *)
C18_Witness ==
  /\ ta.name = "readCardSerial"
  /\ ta.pc = "done"
  /\ ta.uidLength = 7
  /\ ta.ret = 7
  /\ SubSeq(ta.uid, 1, 7) = <<17, 34, 51, 68, 85, 102, 119>>

(* C19: readCardSerial returns a negative value whenever a bus exchange of
   the activation timed out. *)
C19_TimeoutIsNegative ==
  (ta.name = "readCardSerial" /\ ta.pc = "done" /\ ta.timedOut # {}) =>
     ta.ret < 0

(* the steps C20 lists: RF configuration load, RF field on, the register
   mask writes, every sendData and every readData *)
ListedSteps ==
  {"loadRFConfig", "setRF_on", "cryptoOff", "rxCrcOff", "txCrcOff", "idleCmd",
   "transceiveCmd", "reqa", "atqa", "anticoll1", "readUid1", "rxCrcOn1",
   "txCrcOn1", "select1", "sak1", "rxCrcOff2", "txCrcOff2", "anticoll2",
   "readUid2", "rxCrcOn2", "txCrcOn2", "select2", "sak2"}

(* C20: once one of the listed commands has failed, activateTypeA has
   returned, with a result that is not positive. *)
C20_FirstFailureSurfaces ==
  (ta.failed \cap ListedSteps # {}) => (Activated /\ ta.uidLength <= 0)

(***************************************************************************)
(* Further properties of the transport, of readData's buffers and of the   *)
(* cascade tag.                                                            *)
(***************************************************************************)
NoTimeout(log) == \A i \in 1..Len(log) : log[i].e # "timeout"

(* C28: transceiveCommand called without a receive buffer or with receive
   length 0, its three send-phase waits successful, returns true after the
   send phase: NSS was asserted exactly once, nothing was received, and NSS
   is high on return. *)
C28_WriteOnly ==
  (tpc = "ret" /\ (tdst = "null" \/ trlen = 0) /\ NoTimeout(tlog)) =>
     /\ tres
     /\ nss = HIGH
     /\ CountOf(tlog, "nssLow", Len(tlog)) = 1
     /\ CountOf(tlog, "recv", Len(tlog)) = 0
     /\ EventNames(tlog) = <<"busyLow", "nssLow", "send", "busyHigh", "nssHigh", "busyLow">>

C28_Witness ==
  /\ tpc = "ret"
  /\ tdst = "static16"
  /\ trlen = 0
  /\ tres
  /\ nss = HIGH
  /\ Len(tlog) = 6

(* C29: over any sequence of readData calls the 508-byte buffer is allocated
   at most once, by a call with len > 16 while there is none; a successful
   call returns the large buffer for len > 16 and the fixed 16-byte buffer
   for len <= 16; and a read stores its data at the start of that buffer,
   over what an earlier read of the same size class left there. *)
C29_OneLargeBuffer ==
  /\ [](/\ mem.mallocs <= 1
        /\ (mem.mallocs = 1) <=> (mem.dyn508 # << >>)
        /\ (call.name = "readData" /\ pc = "done" /\ ret.ok) =>
              ret.buf = IF call.len > 16 THEN "dyn508" ELSE "static16")
  /\ [][mem'.mallocs # mem.mallocs =>
          /\ mem.mallocs = 0
          /\ mem.dyn508 = << >>
          /\ call'.name = "readData"
          /\ call'.len > 16]_vars
  /\ [][(call.name = "readData" /\ tpc = "recv2") =>
          /\ tdst = (IF call.len > 16 THEN "dyn508" ELSE "static16")
          /\ SubSeq(mem'[tdst], 1, trlen) = rx'
          /\ Len(rx') = call.len
          /\ SubSeq(mem'[tdst], trlen + 1, Len(mem[tdst]))
               = SubSeq(mem[tdst], trlen + 1, Len(mem[tdst]))
          /\ \A b \in {"static16", "dyn508"} \ {tdst} : mem'[b] = mem[b]]_vars

(* a 17-byte read into the buffer that an earlier 508-byte read has filled *)
C29_Witness ==
  /\ call.name = "readData"
  /\ call.len = 17
  /\ pc = "done"
  /\ ret.buf = "dyn508"
  /\ mem.mallocs = 1
  /\ rx = DataReply(160, 17)
  /\ SubSeq(mem.dyn508, 1, 17) = rx
  /\ mem.dyn508[508] = DataReply(16, 508)[508]

(* C30: the SAK read after Select-1 has its cascade bit set and the first
   byte of anticollision-1 is not 0x88: activateTypeA returns a non-positive
   value, has sent no cascade-level-2 (0x95) command and read nothing more
   from the card, and readCardSerial hands no UID to its caller. *)
C30_CascadeTagRequired ==
  (Activated /\ Len(ta.reads) >= 3 /\ Mask04(Sak1) /\ ta.reads[2][1] # 136) =>
     /\ ta.uidLength <= 0
     /\ Len(ta.reads) = 3
     /\ \A i \in 1..Len(ta.cards) : ta.cards[i][1] # 149
     /\ ta.pc = "done" => (ta.ret <= 0 /\ ta.uid = NoTa.uid)

C30_Witness ==
  /\ ta.pc = "done"
  /\ ta.failed = {}
  /\ ta.reads = << <<68, 0>>, <<4, 18, 52, 86, 116>>, <<4>> >>
  /\ ta.ret = 0

(***************************************************************************)
(* Properties of the ISO 15693 layer.                                      *)
(***************************************************************************)
IssueReturned == vi.pc \in {"after", "done"} /\ vi.cmd # << >>

(* C21: getInventory passes one request to sendData, the three bytes 0x26
   (request flags), 0x01 (Inventory), 0x00 (mask length) in this order; on
   OK the caller's uid is response bytes 2..9, on any other result it is all
   zero. *)
C21_InventoryRequest ==
  (vi.name = "getInventory" /\ vi.pc = "done") =>
     /\ vi.cmd = <<38, 1, 0>>
     /\ \A i \in 1..Len(vi.sent) : vi.sent[i] = <<38, 1, 0>>
     /\ Len(vi.sent) <= 1
     /\ vi.ret = ISO15693_EC_OK => vi.uid = SubSeq(vi.resp, 3, 10)
     /\ vi.ret # ISO15693_EC_OK => vi.uid = Fill(8, 0)

(* C24: readMultipleBlock returns before any command is issued, and then
   with BLOCK_NOT_AVAILABLE, exactly when blockNo >= numBlock; for every
   blockNo < numBlock the Read Multiple Blocks command (0x23) is issued. *)
C24_BlockRange ==
  (vi.name = "readMultipleBlock" /\ vi.pc = "done") =>
     /\ (vi.cmd = << >>) <=> (vi.blockNo >= vi.numBlock)
     /\ vi.cmd = << >> => vi.ret = ISO15693_EC_BLOCK_NOT_AVAILABLE
     /\ vi.cmd # << >> => vi.cmd[2] = 35

(* C25: with info flag 0x04 set getSystemInfo reports blockSize = (raw size
   & 0x1F) + 1, in 1..32, and numBlocks = raw count + 1, in 1..256. *)
C25_MemorySize ==
  (/\ vi.name = "getSystemInfo"
   /\ vi.pc = "done"
   /\ vi.ret = ISO15693_EC_OK
   /\ BitSet(vi.resp[2], 4)) =>
     LET rawCount == vi.resp[MemSizeAt(vi.resp[2]) + 1]
         rawSize == vi.resp[MemSizeAt(vi.resp[2]) + 2]
     IN  /\ vi.blockSize = (rawSize % 32) + 1
         /\ vi.blockSize \in 1..32
         /\ vi.numBlocks = rawCount + 1
         /\ vi.numBlocks \in 1..256

(* C26: a response read with its error flag set: issueISO15693Command
   returns response byte 1 for codes below 0xA0, the custom-command-error
   value for codes from 0xA0 on, and never OK. *)
C26_ErrorMapping ==
  (IssueReturned /\ vi.sofAtRead /\ BitSet(vi.resp[1], 1)) =>
     /\ vi.resp[2] < 160 => vi.rc = vi.resp[2]
     /\ vi.resp[2] >= 160 => vi.rc = ISO15693_EC_CUSTOM_CMD_ERROR
     /\ vi.resp[2] = 16 => vi.rc = ISO15693_EC_BLOCK_NOT_AVAILABLE
     /\ vi.rc # ISO15693_EC_OK

(* C27: issueISO15693Command returns EC_NO_CARD only when none of its bus
   exchanges timed out. *)
C27_NoCardIsNotAFault ==
  (IssueReturned /\ vi.rc = EC_NO_CARD) => vi.timedOut = {}

InMultiple == vi.name = "getInventoryMultiple"

(* C22: a poll that consumes the record of a collision in slot s of a round
   with mask M of L nibbles sends the mask length byte 4*(L+1) and the mask
   M with s in nibble L, least significant byte first; its mask is longer
   than that of the round that recorded the collision. *)
C22_NarrowerMask ==
  (InMultiple /\ vi.cur.L >= 0) =>
     LET L == vi.cur.L
         value == vi.cur.M + vi.cur.s * 16 ^ L
     IN  /\ vi.maskLen = L + 1
         /\ vi.cmd = <<6, 1, 4 * (L + 1)>>
                     \o SubSeq(<<value % 256, value \div 256>>, 1, (L + 2) \div 2)

(* C23: once the device reports no more collisions and no exchange fails,
   getInventoryMultiple polls once more for every outstanding collision
   record and then returns OK, with *numCard the number of responses read
   in all rounds of the call. *)
C23_Terminates ==
  /\ []((InMultiple /\ vi.quiet) =>
          /\ vi.after <= vi.owed
          /\ (vi.pc # "done" /\ vi.after > 0) => vi.after + vi.numCol = vi.owed + 1
          /\ vi.numCard = vi.total
          /\ vi.pc = "done" =>
               (vi.ret = ISO15693_EC_OK /\ vi.after = vi.owed /\ vi.numCol = 0))
  /\ (InMultiple /\ vi.quiet) ~> (InMultiple /\ vi.pc = "done" /\ vi.ret = ISO15693_EC_OK)

(* two records were outstanding when the device fell quiet *)
C23_Witness ==
  /\ InMultiple
  /\ vi.pc = "done"
  /\ vi.quiet
  /\ vi.owed = 2
  /\ vi.after = 2
  /\ vi.rounds = 3
  /\ vi.numCard >= 2

(***************************************************************************)
(* C31: in every activateTypeA call both CRC bits are cleared when REQA /  *)
(* WUPA and each anticollision command (0x93 0x20, 0x95 0x20) goes out,    *)
(* both are set when each Select command (0x93 0x70, 0x95 0x70) goes out,  *)
(* and both are set when the call returns 7, or 4 after reading a SAK.     *)
(***************************************************************************)
CrcOff == [rx |-> 0, tx |-> 0]

CrcOn == [rx |-> 1, tx |-> 1]

C31_CrcAroundSelect ==
  /\ \A i \in 1..Len(ta.cards) :
        LET f == ta.cards[i]
        IN  /\ (Len(f) = 1 \/ (Len(f) = 2 /\ f[2] = 32)) => ta.crcAt[i] = CrcOff
            /\ (Len(f) = 7 /\ f[2] = 112) => ta.crcAt[i] = CrcOn
  /\ Len(ta.crcAt) = Len(ta.cards)
  /\ (/\ ta.pc \in {"done", "filter"}
      /\ \/ ta.uidLength = 7
         \/ ta.uidLength = 4 /\ Len(ta.reads) = 3)
     => ta.crc = CrcOn

(* a double-size activation returned: all five card frames went out *)
C31_Witness ==
  /\ ta.pc = "done" /\ ta.name = "activateTypeA" /\ ta.ret = 7
  /\ Len(ta.cards) = 5
  /\ ta.crcAt = <<CrcOff, CrcOff, CrcOn, CrcOff, CrcOn>>
  /\ ta.crc = CrcOn

(***************************************************************************)
(* C32: a poll that returns OK has made, in this order: one clear of the   *)
(* interrupt flags, one send of the request, then for each slot 0..15 one  *)
(* read of IRQ_STATUS and one of RX_STATUS, followed after each of the     *)
(* slots 0..14 (15 times, not after slot 15) by the TX_CONFIG and-mask,    *)
(* the clear and the zero-length send of the end-of-frame; then the field  *)
(* is switched off and after that the RF configuration loaded and the      *)
(* field switched on.  The reads of responses lie in between.              *)
(***************************************************************************)
RECURSIVE SlotOps(_)
SlotOps(slot) ==
  IF slot > 15 THEN << >>
  ELSE <<Op("getIRQStatus", slot), Op("readRegister", slot)>>
       \o (IF slot <= 14
           THEN <<Op("writeRegisterWithAndMask", slot),
                  Op("clearIRQStatus", slot), Op("sendData", slot)>>
           ELSE << >>)
       \o SlotOps(slot + 1)

NotReadData(o) == o.op # "readData"

PollReturnedOk == InMultiple /\ vi.pc = "gim_after" /\ vi.rc = ISO15693_EC_OK

C32_RoundOrder ==
  PollReturnedOk =>
    /\ SelectSeq(vi.ops, NotReadData) =
         <<Op("clearIRQStatus", -1), Op("sendData", -1)>>
         \o SlotOps(0)
         \o <<Op("setRF_off", -1), Op("loadRFConfig", -1), Op("setRF_on", -1),
              Op("writeRegisterWithAndMask", -1), Op("writeRegisterWithOrMask", -1)>>
    /\ Cardinality({i \in 1..Len(vi.ops) :
                      vi.ops[i].op = "sendData" /\ vi.ops[i].slot >= 0}) = 15

(* the second poll of a call returned OK after reading a response *)
C32_Witness ==
  /\ PollReturnedOk
  /\ vi.rounds = 2
  /\ \E i \in 1..Len(vi.ops) : vi.ops[i].op = "readData"

(***************************************************************************)
(* C33: during getInventoryMultiple the number of outstanding collision    *)
(* records is at most maxTags, every index of collision[] written is below *)
(* maxTags, and a slot with the collision bit set adds a record only while *)
(* fewer than maxTags records are outstanding.                             *)
(***************************************************************************)
C33_ListBounded ==
  /\ [](InMultiple =>
          /\ vi.numCol <= vi.maxTags
          /\ \A i \in vi.writes : i >= 0 /\ i < vi.maxTags)
  /\ [][(InMultiple /\ vi'.name = vi.name /\ vi'.recorded > vi.recorded)
          => vi.numCol < vi.maxTags]_vars

(* a collision was seen with the list full, after a write to its last index *)
C33_Witness ==
  /\ InMultiple
  /\ vi.maxTags = 2
  /\ vi.numCol = 2
  /\ 1 \in vi.writes
  /\ vi.total > 0
  /\ vi.pc = "ip_next" /\ vi.slot = 3 /\ vi.recorded = 1 /\ vi.colBefore = 1

(***************************************************************************)
(* C34: the collision list is a queue.  The outstanding records are in the *)
(* order in which they were recorded; a round of the while loop takes its  *)
(* mask from the oldest one; the removal after the round removes exactly   *)
(* that one and keeps the others in their order; and the count after the   *)
(* round is the count before it, minus one, plus the records of the round. *)
(***************************************************************************)
Stamp(o) == o.r * 16 + o.s

InRound == InMultiple /\ vi.pc \in {"ip_clear", "ip_send", "ip_slot", "ip_next",
                                    "ip_rfOff", "ip_setupRF", "gim_after"}

Outstanding(v) == SubSeq(v.origin, 1, v.numCol)

C34_Fifo ==
  /\ [](InMultiple =>
          /\ \A i, j \in 1..vi.numCol :
                i < j => Stamp(vi.origin[i]) < Stamp(vi.origin[j])
          /\ \A i \in 1..vi.numCol :
                vi.collision[i] =
                  CollisionRecord(vi.origin[i].L, vi.origin[i].M, vi.origin[i].s)
          /\ (InRound /\ vi.rounds > 1) =>
                /\ vi.cur = vi.origin[1]
                /\ vi.cmd = inventoryPollRequest(Nibbles(vi.collision[1]),
                                                 vi.collision[1], bigEndian)
                /\ vi.numCol = vi.colBefore + vi.recorded)
  /\ [][(PollReturnedOk /\ vi.rounds > 1 /\ vi'.name = vi.name)
          => /\ Outstanding(vi') = Tail(Outstanding(vi))
             /\ SubSeq(vi'.collision, 1, vi'.numCol) =
                  Tail(SubSeq(vi.collision, 1, vi.numCol))
             /\ vi'.numCol = vi.colBefore - 1 + vi.recorded]_vars

(* a round of the loop recorded a collision behind an older record, and the
   record it had consumed was removed *)
C34_Witness ==
  /\ InMultiple
  /\ vi.rounds = 3
  /\ vi.pc = "ip_clear"
  /\ vi.numCol = 2
  /\ vi.origin[1].r = 1
  /\ vi.origin[2].r = 2

(***************************************************************************)
(* C37: during getInventoryMultiple *numCard is at most maxTags and every  *)
(* byte of uid[] is written at an offset below 8 * maxTags.                *)
(***************************************************************************)
C37_UidBounded ==
  InMultiple => (vi.numCard <= vi.maxTags /\ vi.uidTop < 8 * vi.maxTags)

(***************************************************************************)
(* C40: a call of issueISO15693Command that comes as far as the response   *)
(* flags, and so returns OK or the error code of a response, has had a tag *)
(* answer its own request; the response it read is one received after its  *)
(* request went out.                                                       *)
(***************************************************************************)
C40_OwnResponse ==
  (vi.pc = "after" /\ vi.sofAtRead) => (vi.onAir /\ vi.answered)

(***************************************************************************)
(* C35: enablePrivacyMode and disablePrivacyMode issue Get Random Number   *)
(* first.  When that fetch fails they return its error code and no frame   *)
(* with the password is issued; when it returns OK they issue Enable       *)
(* Privacy (0xBA), respectively Set Password (0xB3, identifier 0x04), with *)
(* the password bytes password[i] XOR random[i mod 2], random being the    *)
(* two bytes behind the flags of the response the fetch read.              *)
(***************************************************************************)
InPrivacy == vi.name \in {"enablePrivacyMode", "disablePrivacyMode"}

Masked(password, random) ==
  [i \in 1..4 |-> Xor8(password[i], random[((i - 1) % 2) + 1])]

C35_PrivacyAfterRandom ==
  InPrivacy =>
    /\ vi.phase = "random" =>
         /\ vi.cmd = <<2, 178, 4>>
         /\ \A i \in 1..Len(vi.sent) : vi.sent[i] = <<2, 178, 4>>
         /\ vi.pc = "done" => (vi.ret = vi.rc /\ vi.rc # ISO15693_EC_OK)
    /\ vi.phase = "apply" =>
         /\ Len(vi.fetched) >= 3 => vi.data = SubSeq(vi.fetched, 2, 3)
         /\ vi.cmd = (IF vi.name = "enablePrivacyMode" THEN <<2, 186, 4>>
                      ELSE <<2, 179, 4, 4>>) \o Masked(vi.password, vi.data)
         /\ \A i \in 1..Len(vi.sent) :
               vi.sent[i] \in {<<2, 178, 4>>, vi.cmd}
         /\ vi.pc = "done" => vi.ret = vi.rc

(* both frames of an enablePrivacyMode went out and the call returned OK *)
C35_Witness ==
  /\ vi.name = "enablePrivacyMode"
  /\ vi.pc = "done"
  /\ vi.ret = ISO15693_EC_OK
  /\ vi.password = <<15, 240, 85, 170>>
  /\ vi.fetched = <<0, 165, 60>>
  /\ vi.sent = <<<<2, 178, 4>>, <<2, 186, 4, 170, 204, 240, 150>>>>

(***************************************************************************)
(* C36: every transceiveCommand call returns, with success or failure,     *)
(* whatever the BUSY line does, as long as the clock advances; while one   *)
(* of its wait loops runs, the time it has waited is at most one tick      *)
(* beyond its timeout.                                                     *)
(***************************************************************************)
C36_Terminates ==
  /\ (tpc \notin {"idle", "ret"}) ~> (tpc = "ret")
  /\ [](tpc \in WaitStates => waited <= CommandTimeoutTicks + 1)

(* BUSY stayed high from the start: the first wait ran into its timeout *)
C36_Witness ==
  /\ tpc = "ret"
  /\ ~tres
  /\ busy = HIGH
  /\ EventNames(tlog) = <<"timeout">>

(***************************************************************************)
(* C38: in a field of tags with distinct UIDs that answer as the standard  *)
(* says, with maxTags at least their number, a getInventoryMultiple that   *)
(* returns OK has stored the UID of every tag once: *numCard is the number *)
(* of tags and no UID is stored twice.                                     *)
(***************************************************************************)
InTags == InMultiple /\ vi.tags # {}

C38_EveryTagOnce ==
  (/\ InTags
   /\ vi.pc = "done"
   /\ vi.ret = ISO15693_EC_OK
   /\ vi.maxTags >= Cardinality(vi.tags))
  => /\ vi.numCard = Cardinality(vi.tags)
     /\ Len(vi.uids) = vi.numCard
     /\ \A i, j \in 1..Len(vi.uids) : i # j => vi.uids[i] # vi.uids[j]
     /\ {vi.uids[i] : i \in 1..Len(vi.uids)} = vi.tags

(* two tags equal in their low 16 bits were told apart in the fifth round *)
C38_Witness ==
  /\ InTags
  /\ vi.pc = "done"
  /\ vi.ret = ISO15693_EC_OK
  /\ vi.tags = {74565, 140101}
  /\ vi.maxTags = 2
  /\ vi.rounds = 5
  /\ vi.uids = <<74565, 140101>>

(***************************************************************************)
(* C39: in every field of tags with distinct UIDs that answer as the       *)
(* standard says, on a bus without failures, getInventoryMultiple returns. *)
(***************************************************************************)
C39_InventoryReturns == InTags ~> (InTags /\ vi.pc = "done")

====
